---- MODULE Spec2Model ----
(***************************************************************************)
(* Model of the Linux I2C core (i2c-core-base.c, i2c-core.h, i2c.h):       *)
(* client instantiation and address uniqueness over a mux tree, and the    *)
(* message transfer engine with its retry loop and bus locking.            *)
(***************************************************************************)
EXTENDS Integers, Naturals, Sequences, FiniteSets, Bags, TLC

(***************************************************************************)
(* Program constants                                                       *)
(***************************************************************************)
I2C_CLIENT_TEN == 16

I2C_CLIENT_SLAVE == 32

I2C_ADDR_OFFSET_TEN_BIT == 40960

I2C_ADDR_OFFSET_SLAVE == 4096

EBUSY == 16

EINVAL == 22

ENOMEM == 12

EEXIST == 17

(***************************************************************************)
(* Bounds of the model                                                     *)
(***************************************************************************)
\* number of concurrent callers of i2c_new_client_device
NThreads == 2

\* number of struct i2c_client objects kzalloc can hand out at once
MaxClients == 2

Threads == 1..NThreads

\* no call made yet, or its arguments never read
NoInfo == [adapter |-> "none", addr |-> 0, flags |-> 0]

(***************************************************************************)
(* The adapter tree: a root adapter with two mux channels, one of which    *)
(* carries a second-level mux channel (adapter->dev.parent).               *)
(***************************************************************************)
NoAdapter == "none"

Adapters == {"root", "muxA", "muxB", "muxA1"}

\* adapter->dev.parent when it is an adapter device, as set up by the mux core
dev_parent(adapter) ==
    CASE adapter = "muxA" -> "root"
      [] adapter = "muxB" -> "root"
      [] adapter = "muxA1" -> "muxA"
      [] OTHER -> NoAdapter

\* addresses and flag words callers pass in struct i2c_board_info
InfoAddrs == {80, 1024}

InfoFlags == {0, I2C_CLIENT_TEN}

\* the addresses handed to the address checks: 0 .. MaxAddr
MaxAddr == 1030

CheckAddrs == 0 .. MaxAddr

\* addresses and flag words of every client the model can register
ClientAddrs == InfoAddrs \cup {81} \cup CheckAddrs

ClientFlags == InfoFlags \cup {I2C_CLIENT_SLAVE}

VARIABLES
    clients,                 \* bag of the registered struct i2c_client devices
    addrs_in_instantiation,  \* per adapter: set bits of the 7-bit bitmap
    pc,                      \* per thread: position in i2c_new_client_device
    info,                    \* per thread: adap and the fields of *info, as copied
                             \* into the client under construction
    status,                  \* per thread: local `status`
    workload,                \* who calls i2c_transfer, on which adapters, with
                             \* which batches, against which bus behaviour
    i2c_adapter,             \* the adapter settings: algo, quirks, retries, timeout
    in_atomic,               \* i2c_in_atomic_xfer_mode() of the running system
    locked_flags,            \* per adapter: set bits of adap->locked_flags
    bus_lock,                \* per adapter: owner of adapter->bus_lock, 0 if free
    jiffies,                 \* the tick counter
    xfer,                    \* per thread: frame of its i2c_transfer call
    suspend_log,             \* per adapter: whether a transfer was refused for
                             \* suspension, and the "Transfer while suspended"
                             \* reports written so far
    bri,                     \* adap->bus_recovery_info of the adapter under recovery
    registered,              \* how far i2c_register_adapter got with that adapter
    rec,                     \* frame of i2c_recover_bus and what it did to the lines
    i2c_adapter_idr,         \* the registered adapters, each with its class mask
    i2c_driver,              \* per driver: the registered struct i2c_driver, with
                             \* its list of detected clients (driver->clients)
    userspace_clients,       \* per adapter: list of the clients made by new_device
    origin,                  \* per registered client: who instantiated it
    det,                     \* frame of the detection passes of one registration
    call,                    \* the last sysfs or removal call and its result
    arg,                     \* the address and flag word handed to the checks
    scanned,                 \* what the last scan of an address list did
    held,                    \* per thread: the bus locks it took by i2c_lock_bus,
                             \* and the one it is waiting for
    idr,                     \* i2c_adapter_idr by number: bus number -> adapter
    adaps,                   \* per struct i2c_adapter: nr, name, algo, and whether
                             \* its device is registered
    __i2c_first_dynamic_bus_num, \* first number handed out dynamically
    is_registered,           \* set by i2c_init once the bus type is registered
    declared,                \* the static declarations: the bus numbers of
                             \* __i2c_board_list and the i2c aliases of the firmware
    nrcall,                  \* the last call on the number registry and its result
    OF_POPULATED,            \* the device tree nodes that carry the OF_POPULATED flag
    of_call                  \* per caller of the device tree code: where it is

avars == <<clients, addrs_in_instantiation, pc, info, status>>

xvars == <<workload, i2c_adapter, in_atomic, locked_flags, bus_lock, jiffies, xfer,
           suspend_log>>

rvars == <<bri, registered, rec>>

dvars == <<i2c_adapter_idr, i2c_driver, userspace_clients, origin, det, call>>

vvars == <<arg, scanned>>

lvars == <<held>>

nvars == <<idr, adaps, __i2c_first_dynamic_bus_num, is_registered, declared, nrcall>>

fvars == <<OF_POPULATED, of_call>>

evars == <<vvars, lvars, nvars, fvars>>

vars == <<clients, addrs_in_instantiation, pc, info, status,
          workload, i2c_adapter, in_atomic, locked_flags, bus_lock, jiffies, xfer,
          suspend_log,
          bri, registered, rec,
          i2c_adapter_idr, i2c_driver, userspace_clients, origin, det, call,
          arg, scanned, held,
          idr, adaps, __i2c_first_dynamic_bus_num, is_registered, declared, nrcall,
          OF_POPULATED, of_call>>

(***************************************************************************)
(* Bit operations on 16-bit words                                          *)
(***************************************************************************)
RECURSIVE BitAnd(_, _)
BitAnd(a, b) ==
    IF a = 0 \/ b = 0 THEN 0
    ELSE (a % 2) * (b % 2) + 2 * BitAnd(a \div 2, b \div 2)

RECURSIVE BitOr(_, _)
BitOr(a, b) ==
    IF a = 0 THEN b
    ELSE IF b = 0 THEN a
    ELSE (IF a % 2 = 1 \/ b % 2 = 1 THEN 1 ELSE 0) + 2 * BitOr(a \div 2, b \div 2)

(***************************************************************************)
(* AddressSpace                                                            *)
(***************************************************************************)
i2c_encode_flags_to_addr(c) ==
    LET a0 == c.addr
        a1 == IF BitAnd(c.flags, I2C_CLIENT_TEN) # 0
              THEN BitOr(a0, I2C_ADDR_OFFSET_TEN_BIT) ELSE a0
        a2 == IF BitAnd(c.flags, I2C_CLIENT_SLAVE) # 0
              THEN BitOr(a1, I2C_ADDR_OFFSET_SLAVE) ELSE a1
    IN a2

\* i2c_encode_flags_to_addr of the clients the model creates, evaluated once
EncodedAddr ==
    [a \in ClientAddrs, f \in ClientFlags |->
        i2c_encode_flags_to_addr([addr |-> a, flags |-> f])]

\* flags & I2C_CLIENT_TEN of the flag words the model uses, evaluated once
TenBit == [f \in ClientFlags |-> BitAnd(f, I2C_CLIENT_TEN) # 0]

\* faulty variant: the 7-bit range lets address 0 through
i2c_check_addr_validity_ZeroOk(addr, flags) ==
    IF BitAnd(flags, I2C_CLIENT_TEN) # 0
    THEN (IF addr > 1023 THEN -EINVAL ELSE 0)
    ELSE (IF addr > 127 THEN -EINVAL ELSE 0)

i2c_check_addr_validity(addr, flags) ==
    IF BitAnd(flags, I2C_CLIENT_TEN) # 0
    THEN (IF addr > 1023 THEN -EINVAL ELSE 0)
    ELSE (IF addr = 0 \/ addr > 127 THEN -EINVAL ELSE 0)

i2c_parent_is_i2c_adapter(adapter) == dev_parent(adapter)

\* the registered client devices that are children of adapter->dev
ChildClients(adapter) == {c \in BagToSet(clients) : c.adapter = adapter}

\* the adapter devices that are children of adapter->dev
ChildAdapters(adapter) == {a \in Adapters : dev_parent(a) = adapter}

\* faulty variant: compares the raw address, ignoring the client's flags
__i2c_check_addr_busy_RawAddr(c, addr) ==
    IF c.addr = addr THEN -EBUSY ELSE 0

__i2c_check_addr_busy(c, addr) ==
    IF EncodedAddr[c.addr, c.flags] = addr THEN -EBUSY ELSE 0

\* faulty variant: looks at the children of this adapter only, not further up
i2c_check_mux_parents_OneLevel(adapter, addr) ==
    IF \E c \in ChildClients(adapter) : __i2c_check_addr_busy(c, addr) # 0
    THEN -EBUSY ELSE 0

RECURSIVE i2c_check_mux_parents(_, _)
i2c_check_mux_parents(adapter, addr) ==
    LET parent == i2c_parent_is_i2c_adapter(adapter)
        result == IF \E c \in ChildClients(adapter) : __i2c_check_addr_busy(c, addr) # 0
                  THEN -EBUSY ELSE 0
    IN IF result = 0 /\ parent # NoAdapter
       THEN i2c_check_mux_parents(parent, addr)
       ELSE result

\* device_for_each_child(&adapter->dev, &addr, i2c_check_mux_children)
RECURSIVE i2c_check_mux_children(_, _)
i2c_check_mux_children(adapter, addr) ==
    IF \/ \E c \in ChildClients(adapter) : __i2c_check_addr_busy(c, addr) # 0
       \/ \E a \in ChildAdapters(adapter) : i2c_check_mux_children(a, addr) # 0
    THEN -EBUSY ELSE 0

i2c_check_addr_busy(adapter, addr) ==
    LET parent == i2c_parent_is_i2c_adapter(adapter)
        result == IF parent # NoAdapter THEN i2c_check_mux_parents(parent, addr) ELSE 0
    IN IF result = 0 THEN i2c_check_mux_children(adapter, addr) ELSE result

(***************************************************************************)
(* Instantiation marker (addrs_in_instantiation)                           *)
(***************************************************************************)
\* faulty variant: sets the bit without testing it
i2c_lock_addr_NoTest(adap, addr, flags) == 0

\* faulty variant: the marker is looked up by the flag-encoded address
i2c_lock_addr_EncodedKey(adap, addr, flags) ==
    IF ~TenBit[flags] /\ EncodedAddr[addr, flags] \in addrs_in_instantiation[adap]
    THEN -EBUSY ELSE 0

\* test_and_set_bit for 7-bit addresses; 10-bit addresses take no marker
i2c_lock_addr(adap, addr, flags) ==
    IF ~TenBit[flags] /\ addr \in addrs_in_instantiation[adap]
    THEN -EBUSY ELSE 0

\* the bitmap of adap after a successful i2c_lock_addr
i2c_lock_addr_bits(adap, addr, flags) ==
    IF ~TenBit[flags]
    THEN addrs_in_instantiation[adap] \cup {addr}
    ELSE addrs_in_instantiation[adap]

\* the bitmap of adap after i2c_unlock_addr
i2c_unlock_addr(adap, addr, flags) ==
    IF ~TenBit[flags]
    THEN addrs_in_instantiation[adap] \ {addr}
    ELSE addrs_in_instantiation[adap]

(***************************************************************************)
(* i2c_new_client_device, one action per access to shared state            *)
(***************************************************************************)
\* threads whose struct i2c_client is allocated and not yet registered or freed
InFlight == {t \in Threads : pc[t] \in {"lock_addr", "check_busy", "register", "out_err"}}

\* kzalloc(sizeof *client, GFP_KERNEL) can succeed
kzalloc == BagCardinality(clients) + Cardinality(InFlight) < MaxClients

\* kfree(client); return ERR_PTR(status)
out_err_silent(t, st) ==
    /\ info' = [info EXCEPT ![t] = NoInfo]
    /\ status' = [status EXCEPT ![t] = st]
    /\ pc' = [pc EXCEPT ![t] = "return"]
    /\ UNCHANGED clients

\* entry, kzalloc fails: return ERR_PTR(-ENOMEM)
NewClientNoMem(t) ==
    /\ pc[t] = "idle"
    /\ info' = [info EXCEPT ![t] = NoInfo]
    /\ status' = [status EXCEPT ![t] = -ENOMEM]
    /\ pc' = [pc EXCEPT ![t] = "return"]
    /\ UNCHANGED <<clients, addrs_in_instantiation>>

\* entry: kzalloc, copy of info into the client, i2c_check_addr_validity
NewClientEnter(t, adap, addr, flags) ==
    /\ pc[t] = "idle"
    /\ kzalloc
    /\ UNCHANGED addrs_in_instantiation
    /\ LET st == i2c_check_addr_validity(addr, flags)
       IN IF st # 0
          THEN out_err_silent(t, st)
          ELSE /\ info' = [info EXCEPT ![t] =
                       [adapter |-> adap, addr |-> addr, flags |-> flags]]
               /\ status' = [status EXCEPT ![t] = st]
               /\ pc' = [pc EXCEPT ![t] = "lock_addr"]
               /\ UNCHANGED clients

\* status = i2c_lock_addr(...); if (status) goto out_err_silent
NewClientLockAddr(t) ==
    /\ pc[t] = "lock_addr"
    /\ LET c == info[t]
           st == i2c_lock_addr(c.adapter, c.addr, c.flags)
       IN IF st # 0
          THEN /\ out_err_silent(t, st)
               /\ UNCHANGED addrs_in_instantiation
          ELSE /\ addrs_in_instantiation' =
                      [addrs_in_instantiation EXCEPT ![c.adapter] =
                          i2c_lock_addr_bits(c.adapter, c.addr, c.flags)]
               /\ status' = [status EXCEPT ![t] = st]
               /\ pc' = [pc EXCEPT ![t] = "check_busy"]
               /\ UNCHANGED <<clients, info>>

\* status = i2c_check_addr_busy(...); if (status) goto out_err
NewClientCheckBusy(t) ==
    /\ pc[t] = "check_busy"
    /\ LET c == info[t]
           st == i2c_check_addr_busy(c.adapter, EncodedAddr[c.addr, c.flags])
       IN /\ status' = [status EXCEPT ![t] = st]
          /\ pc' = [pc EXCEPT ![t] = IF st # 0 THEN "out_err" ELSE "register"]
    /\ UNCHANGED <<clients, info, addrs_in_instantiation>>

\* out_err: i2c_unlock_addr; then out_err_silent
out_err(t, st) ==
    /\ LET c == info[t]
       IN addrs_in_instantiation' =
              [addrs_in_instantiation EXCEPT ![c.adapter] =
                  i2c_unlock_addr(c.adapter, c.addr, c.flags)]
    /\ out_err_silent(t, st)

\* device_add_software_node and device_register; a failure of either leaves
\* through out_err_put_of_node / out_remove_swnode, which fall into out_err
NewClientRegister(t, swnode_status, register_status) ==
    /\ pc[t] = "register"
    /\ IF swnode_status # 0
       THEN out_err(t, swnode_status)
       ELSE IF register_status # 0
       THEN out_err(t, register_status)
       ELSE /\ clients' = clients (+) SetToBag({info[t]})
            /\ status' = [status EXCEPT ![t] = 0]
            /\ pc' = [pc EXCEPT ![t] = "unlock_addr"]
            /\ UNCHANGED <<info, addrs_in_instantiation>>

\* success: i2c_unlock_addr; return client
NewClientUnlockAddr(t) ==
    /\ pc[t] = "unlock_addr"
    /\ LET c == info[t]
       IN addrs_in_instantiation' =
              [addrs_in_instantiation EXCEPT ![c.adapter] =
                  i2c_unlock_addr(c.adapter, c.addr, c.flags)]
    /\ pc' = [pc EXCEPT ![t] = "return"]
    /\ info' = [info EXCEPT ![t] = NoInfo]
    /\ UNCHANGED <<clients, status>>

\* faulty variant: the error exit frees the client without i2c_unlock_addr
NewClientOutErr_NoUnlock(t) ==
    /\ pc[t] = "out_err"
    /\ out_err_silent(t, status[t])
    /\ UNCHANGED addrs_in_instantiation

\* the busy check failed: goto out_err
NewClientOutErr(t) ==
    /\ pc[t] = "out_err"
    /\ out_err(t, status[t])

\* the caller has its result; the thread may call again
NewClientReturn(t) ==
    /\ pc[t] = "return"
    /\ pc' = [pc EXCEPT ![t] = "idle"]
    /\ info' = [info EXCEPT ![t] = NoInfo]
    /\ status' = [status EXCEPT ![t] = 0]
    /\ UNCHANGED <<clients, addrs_in_instantiation>>

i2c_new_client_device(t) ==
    \/ NewClientNoMem(t)
    \/ \E adap \in Adapters, addr \in InfoAddrs, flags \in InfoFlags :
           NewClientEnter(t, adap, addr, flags)
    \/ NewClientLockAddr(t)
    \/ NewClientCheckBusy(t)
    \/ \E sw \in {0, -ENOMEM}, reg \in {0, -EEXIST} : NewClientRegister(t, sw, reg)
    \/ NewClientUnlockAddr(t)
    \/ NewClientOutErr(t)
    \/ NewClientReturn(t)

\* the flag words of the calls that meet at one address of one adapter
MarkerFlags == {0, I2C_CLIENT_SLAVE, I2C_CLIENT_TEN}

\* i2c_new_client_device(root, info) with info->addr == 0x50 and any of
\* these flag words
NewClientAt0x50(t) ==
    \/ \E flags \in MarkerFlags : NewClientEnter(t, "root", 80, flags)
    \/ NewClientLockAddr(t)
    \/ NewClientCheckBusy(t)
    \/ \E sw \in {0, -ENOMEM}, reg \in {0, -EEXIST} : NewClientRegister(t, sw, reg)
    \/ NewClientUnlockAddr(t)
    \/ NewClientOutErr(t)
    \/ NewClientReturn(t)

\* calls that registered c and have not yet handed it to their caller
Unreturned(c) == {t \in Threads : pc[t] = "unlock_addr" /\ info[t] = c}

\* device_unregister(&client->dev) on a handle returned by i2c_new_client_device
i2c_unregister_device(c) ==
    /\ BagIn(c, clients)
    /\ CopiesIn(c, clients) > Cardinality(Unreturned(c))
    /\ clients' = clients (-) SetToBag({c})
    /\ UNCHANGED <<addrs_in_instantiation, pc, info, status>>

\* no client registered, no instantiation in progress
NoClients ==
    /\ clients = EmptyBag
    /\ addrs_in_instantiation = [a \in Adapters |-> {}]
    /\ pc = [t \in Threads |-> "idle"]
    /\ info = [t \in Threads |-> NoInfo]
    /\ status = [t \in Threads |-> 0]

(***************************************************************************)
(* The transfer engine: constants                                          *)
(***************************************************************************)
EOPNOTSUPP == 95

EAGAIN == 11

ESHUTDOWN == 108

ENXIO == 6

I2C_M_RD == 1

I2C_AQ_COMB == 1

I2C_AQ_COMB_WRITE_FIRST == 2

I2C_AQ_COMB_READ_SECOND == 4

I2C_AQ_COMB_SAME_ADDR == 8

I2C_AQ_COMB_WRITE_THEN_READ ==
    BitOr(BitOr(I2C_AQ_COMB, I2C_AQ_COMB_WRITE_FIRST),
          BitOr(I2C_AQ_COMB_READ_SECOND, I2C_AQ_COMB_SAME_ADDR))

I2C_AQ_NO_ZERO_LEN_READ == 32

I2C_AQ_NO_ZERO_LEN_WRITE == 64

I2C_AQ_NO_ZERO_LEN == BitOr(I2C_AQ_NO_ZERO_LEN_READ, I2C_AQ_NO_ZERO_LEN_WRITE)

I2C_ALF_IS_SUSPENDED == 0

I2C_ALF_SUSPEND_REPORTED == 1

\* longest batch a caller passes
MaxMsgs == 2

\* largest adap->retries
MaxRetries == 2

\* largest adap->timeout, in jiffies
MaxTimeout == 1

\* the tick counter stops here
MaxJiffies == 2

(***************************************************************************)
(* Messages, batches and quirk declarations                                *)
(***************************************************************************)
\* struct i2c_msg: addr, flags, len (the buffer contents play no part)
Msgs == [addr : {80, 81}, flags : {0, I2C_M_RD}, len : {0, 2}]

Batches == UNION {[1..n -> Msgs] : n \in 0..MaxMsgs}

\* the arguments (msgs, num) of a call; null stands for msgs == NULL
Args(msgs) == [null |-> FALSE, msgs |-> msgs, num |-> Len(msgs)]

NullArgs == [null |-> TRUE, msgs |-> <<>>, num |-> 1]

AllArgs == {Args(b) : b \in Batches} \cup {NullArgs}

\* a write of two bytes followed by a read of two bytes from the same device
WriteThenRead ==
    <<[addr |-> 80, flags |-> 0, len |-> 2],
      [addr |-> 80, flags |-> I2C_M_RD, len |-> 2]>>

\* the batches a workload draws its calls from, by name
Pool ==
    [p \in {"none", "one", "every"} |->
        CASE p = "none" -> {}
          [] p = "one" -> {Args(WriteThenRead)}
          [] p = "every" -> AllArgs]

\* struct i2c_adapter_quirks as adapter drivers declare them
Quirks(flags, num, wlen, rlen, len1, len2) ==
    [flags |-> flags, max_num_msgs |-> num,
     max_write_len |-> wlen, max_read_len |-> rlen,
     max_comb_1st_msg_len |-> len1, max_comb_2nd_msg_len |-> len2]

QuirkNames == {"one_msg", "comb_wr", "no_zero", "comb_caps"}

\* adap->quirks: the declaration an adapter points to, "NULL" for none
QuirkTable ==
    [q \in QuirkNames |->
        CASE q = "one_msg" -> Quirks(0, 1, 0, 0, 0, 0)
          [] q = "comb_wr" -> Quirks(I2C_AQ_COMB_WRITE_THEN_READ, 0, 0, 0, 1, 2)
          [] q = "no_zero" -> Quirks(I2C_AQ_NO_ZERO_LEN, 2, 2, 1, 0, 0)
          [] q = "comb_caps" ->
                 Quirks(BitOr(I2C_AQ_COMB_WRITE_THEN_READ, I2C_AQ_NO_ZERO_LEN),
                        0, 1, 1, 2, 2)]

\* q->flags & bit
QuirkFlag(q, bit) == BitAnd(q.flags, bit) # 0

i2c_quirk_exceeded_Never(val, quirk) == FALSE

\* #define i2c_quirk_exceeded(val, quirk) ((quirk) && ((val) > (quirk)))
i2c_quirk_exceeded(val, quirk) == quirk # 0 /\ val > quirk

\* the checks on a combined transfer of exactly two messages
CombError(q, msgs) ==
    \/ QuirkFlag(q, I2C_AQ_COMB_WRITE_FIRST) /\ BitAnd(msgs[1].flags, I2C_M_RD) # 0
    \/ QuirkFlag(q, I2C_AQ_COMB_READ_SECOND) /\ BitAnd(msgs[2].flags, I2C_M_RD) = 0
    \/ QuirkFlag(q, I2C_AQ_COMB_SAME_ADDR) /\ msgs[1].addr # msgs[2].addr
    \/ i2c_quirk_exceeded(msgs[1].len, q.max_comb_1st_msg_len)
    \/ i2c_quirk_exceeded(msgs[2].len, q.max_comb_2nd_msg_len)

\* the body of the loop over the messages
LenError(q, m, do_len_check) ==
    IF BitAnd(m.flags, I2C_M_RD) # 0
    THEN \/ do_len_check /\ i2c_quirk_exceeded(m.len, q.max_read_len)
         \/ QuirkFlag(q, I2C_AQ_NO_ZERO_LEN_READ) /\ m.len = 0
    ELSE \/ do_len_check /\ i2c_quirk_exceeded(m.len, q.max_write_len)
         \/ QuirkFlag(q, I2C_AQ_NO_ZERO_LEN_WRITE) /\ m.len = 0

\* faulty variant: the general length caps also apply to a combined pair
i2c_check_for_quirks_CapsOnComb(q, msgs, num) ==
    LET comb == QuirkFlag(q, I2C_AQ_COMB)
        max_num == IF comb THEN 2 ELSE q.max_num_msgs
        comb2 == comb /\ num = 2
    IN  IF comb2 /\ CombError(q, msgs) THEN -EOPNOTSUPP
        ELSE IF i2c_quirk_exceeded(num, max_num) THEN -EOPNOTSUPP
        ELSE IF \E i \in 1..num : LenError(q, msgs[i], TRUE) THEN -EOPNOTSUPP
        ELSE 0

i2c_check_for_quirks(q, msgs, num) ==
    LET comb == QuirkFlag(q, I2C_AQ_COMB)
        max_num == IF comb THEN 2 ELSE q.max_num_msgs
        comb2 == comb /\ num = 2
    IN  IF comb2 /\ CombError(q, msgs) THEN -EOPNOTSUPP
        ELSE IF i2c_quirk_exceeded(num, max_num) THEN -EOPNOTSUPP
        ELSE IF \E i \in 1..num : LenError(q, msgs[i], ~comb2) THEN -EOPNOTSUPP
        ELSE 0

__i2c_check_suspended_Never(a) == 0

\* __i2c_check_suspended: the value returned
__i2c_check_suspended(a) ==
    IF I2C_ALF_IS_SUSPENDED \in locked_flags[a] THEN -ESHUTDOWN ELSE 0

\* the reports counted at most
MaxWarns == 2

\* nothing refused, nothing reported
NoReport == [rejected |-> FALSE, warned |-> 0]

\* __i2c_check_suspended: whether it calls dev_WARN, which is when the
\* adapter is suspended and test_and_set_bit found the report bit clear
__i2c_check_suspended_warns(a) ==
    /\ I2C_ALF_IS_SUSPENDED \in locked_flags[a]
    /\ I2C_ALF_SUSPEND_REPORTED \notin locked_flags[a]

\* the log of adapter a after __i2c_check_suspended
__i2c_check_suspended_log(a) ==
    [rejected |-> suspend_log[a].rejected \/ __i2c_check_suspended(a) # 0,
     warned |-> IF __i2c_check_suspended_warns(a) /\ suspend_log[a].warned < MaxWarns
                THEN suspend_log[a].warned + 1
                ELSE suspend_log[a].warned]

\* __i2c_check_suspended: adap->locked_flags after its test_and_set_bit
__i2c_check_suspended_flags(a) ==
    IF I2C_ALF_IS_SUSPENDED \in locked_flags[a]
    THEN locked_flags[a] \cup {I2C_ALF_SUSPEND_REPORTED}
    ELSE locked_flags[a]

__i2c_transfer_checks_SuspendedFirst(a, args) ==
    IF ~i2c_adapter.master_xfer THEN -EOPNOTSUPP
    ELSE IF __i2c_check_suspended(a) # 0 THEN __i2c_check_suspended(a)
    ELSE IF args.null \/ args.num < 1 THEN -EINVAL
    ELSE IF i2c_adapter.quirks # "NULL"
            /\ i2c_check_for_quirks(QuirkTable[i2c_adapter.quirks], args.msgs, args.num) # 0
         THEN -EOPNOTSUPP
    ELSE 0

\* __i2c_transfer up to its retry loop: the error returned, 0 to go on
__i2c_transfer_checks(a, args) ==
    IF ~i2c_adapter.master_xfer THEN -EOPNOTSUPP
    ELSE IF args.null \/ args.num < 1 THEN -EINVAL
    ELSE IF __i2c_check_suspended(a) # 0 THEN __i2c_check_suspended(a)
    ELSE IF i2c_adapter.quirks # "NULL"
            /\ i2c_check_for_quirks(QuirkTable[i2c_adapter.quirks], args.msgs, args.num) # 0
         THEN -EOPNOTSUPP
    ELSE 0

\* whether __i2c_transfer got as far as calling __i2c_check_suspended
ReachesSuspendCheck(args) == i2c_adapter.master_xfer /\ ~args.null /\ args.num >= 1

time_after_Never(a, b) == FALSE

\* #define time_after(a,b) ((long)((b) - (a)) < 0)
time_after(a, b) == b - a < 0

try_in_range_OffByOne(try) == try < i2c_adapter.retries

\* the condition of the retry loop: try <= adap->retries
try_in_range(try) == try <= i2c_adapter.retries

\* faulty variant: atomic context alone selects the atomic primitive
Primitive_ContextOnly ==
    IF in_atomic THEN "master_xfer_atomic" ELSE "master_xfer"

\* the primitive the loop calls
Primitive ==
    IF in_atomic /\ i2c_adapter.master_xfer_atomic THEN "master_xfer_atomic"
    ELSE "master_xfer"

(***************************************************************************)
(* i2c_transfer: bus lock, __i2c_transfer, bus unlock                      *)
(***************************************************************************)
NoPrim == [fn |-> "none", args |-> Args(<<>>)]

\* the frame of a thread that is not in i2c_transfer
IdleFrame ==
    [pc |-> "idle", adapter |-> NoAdapter, args |-> Args(<<>>),
     try |-> 0, ret |-> 0, orig_jiffies |-> 0,
     calls |-> 0, k |-> 0, r |-> 0, prim |-> NoPrim]

\* the frame of a call that has returned ret to its caller
ReturnFrame(ret) == [IdleFrame EXCEPT !.pc = "return", !.ret = ret]

\* what the bus does to the batch of one call: the primitive reports
\* arbitration lost k times and then returns r
PrimitiveReturns(f) == IF f.calls - 1 < f.k THEN -EAGAIN ELSE f.r

\* a caller enters i2c_transfer(adap, msgs, num)
I2cTransferCall(t, a, args) ==
    /\ xfer[t].pc = "idle"
    /\ xfer' = [xfer EXCEPT ![t] =
                    [IdleFrame EXCEPT !.pc = "lock_bus", !.adapter = a, !.args = args]]
    /\ UNCHANGED <<workload, i2c_adapter, in_atomic, locked_flags, suspend_log, bus_lock, jiffies>>

i2c_adapter_trylock_bus_Always(a) == TRUE

\* rt_mutex_trylock(&adapter->bus_lock); the blocking lock waits for it
i2c_adapter_trylock_bus(a) == bus_lock[a] = 0

\* faulty variant: the blocking lock in atomic context too
__i2c_lock_bus_helper_Blocks(t) ==
    LET a == xfer[t].adapter
    IN  /\ xfer[t].pc = "lock_bus"
        /\ i2c_adapter_trylock_bus(a)
        /\ bus_lock' = [bus_lock EXCEPT ![a] = t]
        /\ xfer' = [xfer EXCEPT ![t].pc = "__i2c_transfer"]
        /\ UNCHANGED <<workload, i2c_adapter, in_atomic, locked_flags, suspend_log, jiffies>>

\* __i2c_lock_bus_helper: in atomic context the trylock, -EAGAIN when the
\* lock is taken; else the blocking lock
__i2c_lock_bus_helper(t) ==
    LET a == xfer[t].adapter
    IN  /\ xfer[t].pc = "lock_bus"
        /\ IF in_atomic /\ ~i2c_adapter_trylock_bus(a)
           THEN /\ xfer' = [xfer EXCEPT ![t] = ReturnFrame(-EAGAIN)]
                /\ UNCHANGED bus_lock
           ELSE /\ i2c_adapter_trylock_bus(a)
                /\ bus_lock' = [bus_lock EXCEPT ![a] = t]
                /\ xfer' = [xfer EXCEPT ![t].pc = "__i2c_transfer"]
        /\ UNCHANGED <<workload, i2c_adapter, in_atomic, locked_flags, suspend_log, jiffies>>

\* __i2c_transfer from its entry to the first call of the primitive
__i2c_transfer_begin(t) ==
    LET f == xfer[t]
        a == f.adapter
        e == __i2c_transfer_checks(a, f.args)
    IN  /\ f.pc = "__i2c_transfer"
        /\ locked_flags' =
               IF ReachesSuspendCheck(f.args)
               THEN [locked_flags EXCEPT ![a] = __i2c_check_suspended_flags(a)]
               ELSE locked_flags
        /\ suspend_log' =
               IF ReachesSuspendCheck(f.args)
               THEN [suspend_log EXCEPT ![a] = __i2c_check_suspended_log(a)]
               ELSE suspend_log
        /\ IF e # 0
           THEN xfer' = [xfer EXCEPT ![t].pc = "unlock_bus", ![t].ret = e]
           ELSE IF ~try_in_range(0)
           THEN xfer' = [xfer EXCEPT ![t].pc = "unlock_bus", ![t].ret = 0,
                                     ![t].orig_jiffies = jiffies]
           ELSE \E k \in workload.ks, r \in {f.args.num, -ENXIO} :
                    xfer' = [xfer EXCEPT ![t].pc = "in_xfer",
                                         ![t].orig_jiffies = jiffies,
                                         ![t].k = k, ![t].r = r,
                                         ![t].calls = 1,
                                         ![t].prim = [fn |-> Primitive, args |-> f.args]]
        /\ UNCHANGED <<workload, i2c_adapter, in_atomic, bus_lock, jiffies>>

\* the primitive returns; the rest of the loop body, try++, and the next call
__i2c_transfer_attempt(t) ==
    LET f == xfer[t]
        ret == PrimitiveReturns(f)
    IN  /\ f.pc = "in_xfer"
        /\ IF ret # -EAGAIN
           THEN xfer' = [xfer EXCEPT ![t].pc = "unlock_bus", ![t].ret = ret]
           ELSE IF time_after(jiffies, f.orig_jiffies + i2c_adapter.timeout)
           THEN xfer' = [xfer EXCEPT ![t].pc = "unlock_bus", ![t].ret = ret]
           ELSE IF ~try_in_range(f.try + 1)
           THEN xfer' = [xfer EXCEPT ![t].pc = "unlock_bus", ![t].ret = ret,
                                     ![t].try = f.try + 1]
           ELSE xfer' = [xfer EXCEPT ![t].ret = ret, ![t].try = f.try + 1,
                                     ![t].calls = f.calls + 1,
                                     ![t].prim = [fn |-> Primitive, args |-> f.args]]
        /\ UNCHANGED <<workload, i2c_adapter, in_atomic, locked_flags, suspend_log, bus_lock, jiffies>>

\* i2c_unlock_bus(adap, I2C_LOCK_SEGMENT) and the return of ret
i2c_unlock_bus(t) ==
    /\ xfer[t].pc = "unlock_bus"
    /\ bus_lock' = [bus_lock EXCEPT ![xfer[t].adapter] = 0]
    /\ xfer' = [xfer EXCEPT ![t] = ReturnFrame(xfer[t].ret)]
    /\ UNCHANGED <<workload, i2c_adapter, in_atomic, locked_flags, suspend_log, jiffies>>

\* the caller takes the result
I2cTransferReturn(t) ==
    /\ xfer[t].pc = "return"
    /\ xfer' = [xfer EXCEPT ![t] = IdleFrame]
    /\ UNCHANGED <<workload, i2c_adapter, in_atomic, locked_flags, suspend_log, bus_lock, jiffies>>

i2c_transfer(t) ==
    \/ \E a \in workload.adapters, args \in Pool[workload.pool] : I2cTransferCall(t, a, args)
    \/ __i2c_lock_bus_helper(t)
    \/ __i2c_transfer_begin(t)
    \/ __i2c_transfer_attempt(t)
    \/ i2c_unlock_bus(t)
    \/ I2cTransferReturn(t)

\* a timer tick; time is only read between the first call of the primitive
\* and the return of the last
Tick ==
    /\ jiffies < MaxJiffies
    /\ \E t \in Threads : xfer[t].pc = "in_xfer"
    /\ jiffies' = jiffies + 1
    /\ UNCHANGED <<workload, i2c_adapter, in_atomic, locked_flags, suspend_log, bus_lock, xfer>>

\* lock the bus, set_bit(I2C_ALF_IS_SUSPENDED), unlock the bus
i2c_mark_adapter_suspended(a) ==
    /\ i2c_adapter_trylock_bus(a)
    /\ I2C_ALF_IS_SUSPENDED \notin locked_flags[a]
    /\ locked_flags' = [locked_flags EXCEPT ![a] = @ \cup {I2C_ALF_IS_SUSPENDED}]
    /\ UNCHANGED <<workload, i2c_adapter, in_atomic, bus_lock, jiffies, xfer, suspend_log>>

\* faulty variant: the resume forgets the report as well
i2c_mark_adapter_resumed_ClearsReport(a) ==
    /\ i2c_adapter_trylock_bus(a)
    /\ I2C_ALF_IS_SUSPENDED \in locked_flags[a]
    /\ locked_flags' = [locked_flags EXCEPT ![a] = {}]
    /\ UNCHANGED <<workload, i2c_adapter, in_atomic, bus_lock, jiffies, xfer, suspend_log>>

\* lock the bus, clear_bit(I2C_ALF_IS_SUSPENDED), unlock the bus
i2c_mark_adapter_resumed(a) ==
    /\ i2c_adapter_trylock_bus(a)
    /\ I2C_ALF_IS_SUSPENDED \in locked_flags[a]
    /\ locked_flags' = [locked_flags EXCEPT ![a] = @ \ {I2C_ALF_IS_SUSPENDED}]
    /\ UNCHANGED <<workload, i2c_adapter, in_atomic, bus_lock, jiffies, xfer, suspend_log>>

\* no transfer in flight, every bus free and awake
QuietBus ==
    /\ locked_flags = [a \in Adapters |-> {}]
    /\ bus_lock = [a \in Adapters |-> 0]
    /\ jiffies = 0
    /\ xfer = [t \in Threads |-> IdleFrame]
    /\ suspend_log = [a \in Adapters |-> NoReport]

AdapterSettings(xfers, atomics, quirks, retries, timeouts) ==
    [master_xfer : xfers, master_xfer_atomic : atomics, quirks : quirks,
     retries : retries, timeout : timeouts]

(***************************************************************************)
(* Bus recovery: the descriptor and its validation at registration         *)
(***************************************************************************)
EPROBE_DEFER == 517

RECOVERY_CLK_CNT == 9

\* adap->bus_recovery_info == NULL
NullBri ==
    [null |-> TRUE, recover_bus |-> "NULL",
     get_scl |-> "NULL", set_scl |-> "NULL", get_sda |-> "NULL",
     set_sda |-> "NULL", get_bus_free |-> "NULL",
     prepare_recovery |-> "NULL", unprepare_recovery |-> "NULL",
     scl_gpiod |-> FALSE, sda_gpiod |-> FALSE,
     pinctrl |-> FALSE, pins_default |-> FALSE, pins_gpio |-> FALSE]

\* struct i2c_bus_recovery_info as adapter drivers fill it in before they
\* register the adapter; a hook is "NULL" or the driver's own function
Descriptors ==
    [null : {FALSE}, recover_bus : {"NULL", "generic", "custom"},
     get_scl : {"NULL", "driver"}, set_scl : {"NULL", "driver"},
     get_sda : {"NULL", "driver"}, set_sda : {"NULL", "driver"},
     get_bus_free : {"NULL", "driver"},
     prepare_recovery : {"NULL", "driver"}, unprepare_recovery : {"NULL", "driver"},
     scl_gpiod : BOOLEAN, sda_gpiod : {FALSE},
     pinctrl : BOOLEAN, pins_default : {FALSE}, pins_gpio : {FALSE}]

\* what the platform answers during registration: devm_gpiod_get for "scl"
\* and "sda", gpiod_get_direction(sda) == 0, the two pinctrl_lookup_state
Platforms ==
    [scl : {"ok", "err", "defer"}, sda : {"ok", "err", "defer"},
     sda_out : BOOLEAN, default_found : BOOLEAN, gpio_found : BOOLEAN]

i2c_gpio_init_pinctrl_recovery(b, env) ==
    IF ~b.pinctrl
    THEN [b EXCEPT !.pins_default = FALSE, !.pins_gpio = FALSE]
    ELSE LET pins_default == b.pins_default \/ env.default_found
             pins_gpio == b.pins_gpio \/ env.gpio_found
         IN  IF pins_default /\ pins_gpio
             THEN [b EXCEPT !.pins_default = TRUE, !.pins_gpio = TRUE]
             ELSE [b EXCEPT !.pinctrl = FALSE, !.pins_default = FALSE,
                            !.pins_gpio = FALSE]

\* the descriptor and the value returned, as [bri, ret]
i2c_gpio_init_generic_recovery(b, env) ==
    IF b.recover_bus = "custom" THEN [bri |-> b, ret |-> 0]
    ELSE IF ~b.scl_gpiod /\ env.scl = "defer"
    THEN [bri |-> b, ret |-> -EPROBE_DEFER]
    ELSE LET b1 == IF ~b.scl_gpiod /\ env.scl = "ok"
                   THEN [b EXCEPT !.scl_gpiod = TRUE, !.recover_bus = "generic"]
                   ELSE b
         IN  IF ~b1.sda_gpiod /\ env.sda = "defer"
             THEN [bri |-> b1, ret |-> -EPROBE_DEFER]
             ELSE IF ~b1.sda_gpiod /\ env.sda = "ok"
             THEN [bri |-> [b1 EXCEPT !.sda_gpiod = TRUE], ret |-> 0]
             ELSE [bri |-> b1, ret |-> 0]

i2c_gpio_init_recovery(b, env) ==
    i2c_gpio_init_generic_recovery(i2c_gpio_init_pinctrl_recovery(b, env), env)

\* the GPIO accessors installed for a generic recovery on GPIO lines
GpioAccessors(b, env) ==
    LET b1 == [b EXCEPT !.get_scl = "gpio", !.set_scl = "gpio"]
        b2 == IF b.sda_gpiod THEN [b1 EXCEPT !.get_sda = "gpio"] ELSE b1
    IN  IF b.sda_gpiod /\ env.sda_out THEN [b2 EXCEPT !.set_sda = "gpio"] ELSE b2

i2c_init_recovery_KeepsAll(b, env) ==
    IF b.null THEN [bri |-> b, ret |-> 0]
    ELSE LET g == i2c_gpio_init_recovery(b, env)
         IN  IF g.ret = -EPROBE_DEFER THEN g
             ELSE IF g.bri.scl_gpiod /\ g.bri.recover_bus = "generic"
             THEN [bri |-> GpioAccessors(g.bri, env), ret |-> 0]
             ELSE [bri |-> g.bri, ret |-> 0]

\* the descriptor the adapter is left with and the value returned
i2c_init_recovery(b, env) ==
    IF b.null THEN [bri |-> b, ret |-> 0]
    ELSE LET g == i2c_gpio_init_recovery(b, env)
             c == g.bri
         IN  IF g.ret = -EPROBE_DEFER THEN g
             ELSE IF c.recover_bus = "NULL" THEN [bri |-> NullBri, ret |-> -EINVAL]
             ELSE IF c.scl_gpiod /\ c.recover_bus = "generic"
             THEN [bri |-> GpioAccessors(c, env), ret |-> 0]
             ELSE IF c.recover_bus = "generic"
                     /\ (c.set_scl = "NULL" \/ c.get_scl = "NULL")
             THEN [bri |-> NullBri, ret |-> -EINVAL]
             ELSE IF c.recover_bus = "generic"
                     /\ c.set_sda = "NULL" /\ c.get_sda = "NULL"
             THEN [bri |-> NullBri, ret |-> -EINVAL]
             ELSE [bri |-> c, ret |-> 0]

(***************************************************************************)
(* Bus recovery: i2c_recover_bus and i2c_generic_scl_recovery              *)
(***************************************************************************)
\* no recovery running; the pins are in their default state
IdleRec ==
    [pc |-> "idle", i |-> 0, scl |-> 1, ret |-> 0,
     driven |-> <<>>,       \* the values handed to set_scl, in order
     sda_driven |-> 0,      \* number of set_sda calls
     sda |-> <<>>,          \* the values handed to set_sda, in order
     pins |-> "default",    \* the pinctrl state selected last
     prepared |-> 0,        \* number of prepare_recovery calls
     unprepared |-> 0,      \* number of unprepare_recovery calls
     scl_reads |-> 0,       \* number of get_scl calls
     stuck_at |-> 0,        \* Len(driven) when get_scl read low, 0 if never
     checks |-> 0,          \* number of bus-free readings taken
     reader |-> "none",     \* the hook that took the last reading
     reading |-> 0,         \* the last reading taken
     free_at |-> 0]         \* Len(driven) when the bus reported free, 0 if never

\* what a line reader can answer: an errno, low, high
Readings == {-ENXIO, 0, 1}

\* the hook i2c_generic_bus_free reads
BusFreeReader(b) ==
    IF b.get_bus_free # "NULL" THEN "get_bus_free"
    ELSE IF b.get_sda # "NULL" THEN "get_sda"
    ELSE "none"

i2c_generic_bus_free_NeverFree(b, reading) ==
    LET ret == IF BusFreeReader(b) = "none" THEN -EOPNOTSUPP ELSE reading
    IN  IF ret < 0 THEN ret ELSE -EBUSY

\* faulty variant: an error of the reader comes back as -EBUSY
i2c_generic_bus_free_HidesError(b, reading) ==
    LET ret == IF BusFreeReader(b) = "none" THEN -EOPNOTSUPP ELSE reading
    IN  IF ret = -EOPNOTSUPP THEN ret
        ELSE IF ret > 0 THEN 0 ELSE -EBUSY

i2c_generic_bus_free(b, reading) ==
    LET ret == IF BusFreeReader(b) = "none" THEN -EOPNOTSUPP ELSE reading
    IN  IF ret < 0 THEN ret
        ELSE IF ret # 0 THEN 0 ELSE -EBUSY

\* i2c_recover_bus up to the pulse loop of the generic routine
i2c_recover_bus(custom_ret) ==
    /\ registered.state = "registered"
    /\ rec.pc = "idle"
    /\ rec' =
         IF bri.null THEN [rec EXCEPT !.pc = "return", !.ret = -EBUSY]
         ELSE IF bri.recover_bus = "custom"
         THEN [rec EXCEPT !.pc = "return", !.ret = custom_ret]
         ELSE IF bri.recover_bus = "NULL" \/ bri.set_scl = "NULL"
         THEN [rec EXCEPT !.pc = "oops"]
         ELSE [rec EXCEPT
                 !.pc = "loop", !.i = 0, !.scl = 1, !.ret = 0,
                 !.prepared = IF bri.prepare_recovery # "NULL" THEN 1 ELSE 0,
                 !.pins = IF bri.pinctrl THEN "gpio" ELSE @,
                 !.driven = <<1>>,
                 !.sda_driven = IF bri.set_sda # "NULL" THEN 1 ELSE 0,
                 !.sda = IF bri.set_sda # "NULL" THEN <<1>> ELSE <<>>]
    /\ UNCHANGED <<bri, registered>>

clocks_left_OneMore(i) == i <= RECOVERY_CLK_CNT * 2

\* the test of the while loop, i++ < RECOVERY_CLK_CNT * 2, on the value of i
\* before the increment
clocks_left(i) == i < RECOVERY_CLK_CNT * 2

\* faulty variant: the clock is read when the pass is about to raise it
scl_is_read_BeforeRise(scl) == scl = 0

\* the pass reads the clock line: if (scl), on the level driven last, before
\* scl = !scl
scl_is_read(scl) == scl = 1

\* one pass of the while loop of i2c_generic_scl_recovery, and its next test
RecoveryPulse(scl_in, reading) ==
    /\ rec.pc = "loop"
    /\ IF scl_is_read(rec.scl) /\ bri.get_scl = "NULL"
       THEN rec' = [rec EXCEPT !.pc = "oops"]
       ELSE IF scl_is_read(rec.scl) /\ scl_in = 0
       THEN rec' = [rec EXCEPT !.i = @ + 1, !.ret = -EBUSY, !.pc = "exit",
                               !.scl_reads = @ + 1,
                               !.stuck_at = Len(rec.driven)]
       ELSE LET scl == 1 - rec.scl
                ret == IF scl = 1 THEN i2c_generic_bus_free(bri, reading) ELSE rec.ret
                done == ~clocks_left(rec.i + 1)
            IN  rec' = [rec EXCEPT
                          !.i = @ + 1, !.scl = scl, !.ret = ret,
                          !.scl_reads = IF scl_is_read(rec.scl) THEN @ + 1 ELSE @,
                          !.driven = Append(@, scl),
                          !.sda_driven = IF bri.set_sda # "NULL" THEN @ + 1 ELSE @,
                          !.sda = IF bri.set_sda # "NULL" THEN Append(@, scl) ELSE @,
                          !.checks = IF scl = 1 /\ BusFreeReader(bri) # "none"
                                     THEN @ + 1 ELSE @,
                          !.reader = IF scl = 1 THEN BusFreeReader(bri) ELSE @,
                          !.reading = IF scl = 1 /\ BusFreeReader(bri) # "none"
                                      THEN reading ELSE @,
                          !.free_at = IF scl = 1 /\ ret = 0
                                      THEN Len(rec.driven) + 1 ELSE @,
                          !.pc = IF (scl = 1 /\ ret = 0) \/ done THEN "exit" ELSE "loop"]
    /\ UNCHANGED <<bri, registered>>

recovery_result_Raw(ret) == ret

\* if (ret == -EOPNOTSUPP) ret = 0;
recovery_result(ret) == IF ret = -EOPNOTSUPP THEN 0 ELSE ret

RecoveryExit_KeepsGpioPins ==
    /\ rec.pc = "exit"
    /\ rec' = [rec EXCEPT
                 !.pc = "return",
                 !.ret = recovery_result(@),
                 !.unprepared = IF bri.unprepare_recovery # "NULL" THEN @ + 1 ELSE @,
                 !.pins = IF bri.pinctrl /\ rec.ret = 0 THEN "default" ELSE @]
    /\ UNCHANGED <<bri, registered>>

\* i2c_generic_scl_recovery after the loop
RecoveryExit ==
    /\ rec.pc = "exit"
    /\ rec' = [rec EXCEPT
                 !.pc = "return",
                 !.ret = recovery_result(@),
                 !.unprepared = IF bri.unprepare_recovery # "NULL" THEN @ + 1 ELSE @,
                 !.pins = IF bri.pinctrl THEN "default" ELSE @]
    /\ UNCHANGED <<bri, registered>>

\* the caller of i2c_recover_bus takes the result
RecoveryReturn ==
    /\ rec.pc = "return"
    /\ rec' = [IdleRec EXCEPT !.pins = rec.pins]
    /\ UNCHANGED <<bri, registered>>

\* faulty variant: any error of the recovery setup ends the registration
recovery_aborts_AnyError(res) == res # 0

\* res = i2c_init_recovery(adap); if (res == -EPROBE_DEFER) goto out_reg;
recovery_aborts(res) == res = -EPROBE_DEFER

\* i2c_register_adapter as far as the recovery descriptor is concerned
RegisterAdapter(env) ==
    /\ registered.state = "new"
    /\ LET v == i2c_init_recovery(bri, env)
       IN  /\ bri' = v.bri
           /\ registered' =
                  [state |-> IF recovery_aborts(v.ret) THEN "deferred" ELSE "registered",
                   init_recovery |-> v.ret]
    /\ UNCHANGED rec

\* no adapter with a recovery descriptor
NoRecovery ==
    /\ bri = NullBri
    /\ registered = [state |-> "none", init_recovery |-> 0]
    /\ rec = IdleRec

(***************************************************************************)
(* Device detection (i2c_detect), driver and adapter removal, and the      *)
(* sysfs files new_device and delete_device.  The calls are made one at   *)
(* a time, and each call of i2c_new_client_device runs to completion.      *)
(***************************************************************************)
ENODEV == 19

ENOENT == 2

I2C_CLASS_HWMON == 1

I2C_CLASS_SPD == 128

I2C_CLASS_DEPRECATED == 256

\* the adapters that get registered and deleted, parents first
DetectAdapters == <<"root", "muxA">>

\* adapter->class of the adapters that get registered
AdapterClasses ==
    [a \in {"root", "muxA"} |->
        IF a = "root"
        THEN {I2C_CLASS_HWMON, BitOr(I2C_CLASS_HWMON, I2C_CLASS_SPD)}
        ELSE {I2C_CLASS_HWMON, I2C_CLASS_DEPRECATED}]

\* the elements of a list
Range(s) == {s[k] : k \in DOMAIN s}

\* the drivers that get registered and deleted, in bus order
DriverOrder == <<"d1", "d2">>

Drivers == Range(DriverOrder)

\* the function with no argument
EmptyFcn == [x \in {} |-> 0]

\* driver->address_list: NULL, or the addresses before I2C_CLIENT_END
NullList == [null |-> TRUE, at |-> <<>>]

AddressList(s) == [null |-> FALSE, at |-> s]

\* a struct i2c_driver that is not registered
NoDriver ==
    [registered |-> FALSE, detect |-> FALSE, address_list |-> NullList,
     class |-> 0, clients |-> <<>>]

\* a struct i2c_driver as handed to i2c_register_driver: detect is whether
\* the callback is set
Driver(detect, address_list, class) ==
    [registered |-> TRUE, detect |-> detect, address_list |-> address_list,
     class |-> class, clients |-> <<>>]

\* the drivers that get registered; address 120 (0x78) is a reserved address
DriverConfigs ==
    [d \in Drivers |->
        IF d = "d1"
        THEN {Driver(TRUE, AddressList(<<80, 81>>), I2C_CLASS_HWMON),
              Driver(FALSE, AddressList(<<80, 81>>), I2C_CLASS_HWMON),
              Driver(TRUE, NullList, I2C_CLASS_HWMON)}
        ELSE {Driver(TRUE, AddressList(<<80, 81>>), I2C_CLASS_HWMON),
              Driver(TRUE, AddressList(<<120, 81>>), I2C_CLASS_SPD)}]

\* what the driver's detect callback does: its return value, and whether it
\* filled in info->type
Callbacks ==
    {[ret |-> 0, named |-> TRUE], [ret |-> 0, named |-> FALSE],
     [ret |-> -ENODEV, named |-> FALSE], [ret |-> -ENXIO, named |-> FALSE]}

\* what device_register returns inside i2c_new_client_device
NewClientFaults == {0, -EEXIST}

\* the registered client devices
Live == BagToSet(clients)

\* faulty variant: only the plain validity range, reserved addresses pass
i2c_check_7bit_addr_validity_strict_Plain(addr) ==
    IF addr = 0 \/ addr > 127 THEN -EINVAL ELSE 0

i2c_check_7bit_addr_validity_strict(addr) ==
    IF addr < 8 \/ addr > 119 THEN -EINVAL ELSE 0

\* i2c_default_probe: the SMBus transaction of the probe returned err
i2c_default_probe(err) == err >= 0

\* the status of one whole call of i2c_new_client_device(adap, info)
new_client_status(adap, addr, flags, fault) ==
    IF ~kzalloc THEN -ENOMEM
    ELSE IF i2c_check_addr_validity(addr, flags) # 0 THEN -EINVAL
    ELSE IF i2c_lock_addr(adap, addr, flags) # 0 THEN -EBUSY
    ELSE IF i2c_check_addr_busy(adap, EncodedAddr[addr, flags]) # 0 THEN -EBUSY
    ELSE fault

\* device_register of client c, instantiated by `by`
Registers(c, by) ==
    /\ clients' = clients (+) SetToBag({c})
    /\ origin' = [x \in DOMAIN origin \cup {c} |-> IF x = c THEN by ELSE origin[x]]

\* i2c_unregister_device of every client in gone
Unregisters(gone) ==
    /\ clients' = clients (-) SetToBag(gone)
    /\ origin' = [x \in DOMAIN origin \ gone |-> origin[x]]

\* the record a completed call leaves behind
Called(op, target, addr, res, removed) ==
    [op |-> op, target |-> target, addr |-> addr, res |-> res, removed |-> removed]

\* no such call was the last one
NoCall == Called("none", "none", 0, 0, {})

(***************************************************************************)
(* i2c_detect and i2c_detect_address                                       *)
(***************************************************************************)
IdleDet ==
    [pc |-> "idle", todo |-> <<>>, adapter |-> NoAdapter, driver |-> "none",
     i |-> 0, err |-> 0, ret |-> 0, ran |-> FALSE, log |-> <<>>]

\* faulty variant: scans whatever the classes are
i2c_detect_skips_AnyClass(drv, class) ==
    drv.detect = FALSE \/ drv.address_list.null

\* the early returns of i2c_detect that leave the adapter untouched
i2c_detect_skips(drv, class) ==
    \/ drv.detect = FALSE \/ drv.address_list.null
    \/ class = I2C_CLASS_DEPRECATED
    \/ BitAnd(class, drv.class) = 0

\* faulty variant: every callback error means not-mine
detect_result_Swallows(ret) == 0

\* if (err) return err == -ENODEV ? 0 : err;
detect_result(ret) == IF ret = -ENODEV THEN 0 ELSE ret

\* faulty variant: an invalid candidate is passed over like a busy one
i2c_detect_address_SkipsInvalid(adapter, addr, probe_err, cb, fault) ==
    LET valid == i2c_check_7bit_addr_validity_strict(addr) = 0
        busy == valid /\ i2c_check_addr_busy(adapter, addr) # 0
        probed == valid /\ ~busy
        answer == probed /\ i2c_default_probe(probe_err)
        cbret == IF answer THEN cb.ret ELSE 0
        named == answer /\ cbret = 0 /\ cb.named
        st == IF named THEN new_client_status(adapter, addr, 0, fault) ELSE 0
    IN [addr |-> addr, valid |-> valid, busy |-> busy, probed |-> probed,
        answer |-> answer, cbret |-> cbret, named |-> named, status |-> st,
        created |-> named /\ st = 0,
        err |-> IF answer THEN detect_result(cbret) ELSE 0]

\* i2c_detect_address for candidate addr: probe_err is the outcome of the
\* probe transaction, cb what the callback does, fault what goes wrong in
\* i2c_new_client_device; the fields say how far the function got
i2c_detect_address(adapter, addr, probe_err, cb, fault) ==
    LET valid == i2c_check_7bit_addr_validity_strict(addr) = 0
        busy == valid /\ i2c_check_addr_busy(adapter, addr) # 0
        probed == valid /\ ~busy
        answer == probed /\ i2c_default_probe(probe_err)
        cbret == IF answer THEN cb.ret ELSE 0
        named == answer /\ cbret = 0 /\ cb.named
        st == IF named THEN new_client_status(adapter, addr, 0, fault) ELSE 0
    IN [addr |-> addr, valid |-> valid, busy |-> busy, probed |-> probed,
        answer |-> answer, cbret |-> cbret, named |-> named, status |-> st,
        created |-> named /\ st = 0,
        err |-> IF ~valid THEN -EINVAL
                ELSE IF answer THEN detect_result(cbret)
                ELSE 0]

\* the <<adapter, driver>> pairs __process_new_driver hands to
\* i2c_do_add_adapter: every registered adapter, with driver d
PairsOfDriver(d) ==
    LET s == SelectSeq(DetectAdapters, LAMBDA a : a \in DOMAIN i2c_adapter_idr)
    IN [k \in 1..Len(s) |-> <<s[k], d>>]

\* the pairs __process_new_adapter hands over: adapter a, with every
\* registered driver
PairsOfAdapter(a) ==
    LET s == SelectSeq(DriverOrder, LAMBDA d : i2c_driver[d].registered)
    IN [k \in 1..Len(s) |-> <<a, s[k]>>]

\* i2c_register_driver: driver_register, then a pass on every adapter
i2c_register_driver(d, cfg) ==
    /\ det.pc = "idle"
    /\ ~i2c_driver[d].registered
    /\ i2c_driver' = [i2c_driver EXCEPT ![d] = cfg]
    /\ det' = [IdleDet EXCEPT !.pc = "walk", !.todo = PairsOfDriver(d)]
    /\ call' = NoCall
    /\ UNCHANGED <<i2c_adapter_idr, userspace_clients, origin, clients>>

\* i2c_register_adapter: the adapter gets its number and an empty
\* userspace_clients list, then every driver gets a pass on it
i2c_register_adapter(a, class) ==
    /\ det.pc = "idle"
    /\ a \notin DOMAIN i2c_adapter_idr
    /\ dev_parent(a) = NoAdapter \/ dev_parent(a) \in DOMAIN i2c_adapter_idr
    /\ i2c_adapter_idr' =
           [x \in DOMAIN i2c_adapter_idr \cup {a} |->
               IF x = a THEN class ELSE i2c_adapter_idr[x]]
    /\ userspace_clients' = [userspace_clients EXCEPT ![a] = <<>>]
    /\ det' = [IdleDet EXCEPT !.pc = "walk", !.todo = PairsOfAdapter(a)]
    /\ call' = NoCall
    /\ UNCHANGED <<i2c_driver, origin, clients>>

\* i2c_do_add_adapter for the next pair: i2c_detect up to its loop.  alloc
\* is whether kzalloc of temp_client succeeds.  Whatever i2c_detect returns,
\* i2c_do_add_adapter returns 0.
i2c_do_add_adapter(alloc) ==
    /\ det.pc = "walk"
    /\ det.todo # <<>>
    /\ LET adapter == Head(det.todo)[1]
           driver == Head(det.todo)[2]
           drv == i2c_driver[driver]
           pass == [det EXCEPT !.todo = Tail(det.todo), !.adapter = adapter,
                               !.driver = driver, !.i = 0, !.err = 0, !.ret = 0,
                               !.ran = FALSE, !.log = <<>>]
       IN det' = IF i2c_detect_skips(drv, i2c_adapter_idr[adapter]) THEN pass
                 ELSE IF ~alloc THEN [pass EXCEPT !.err = -ENOMEM]
                 ELSE IF Len(drv.address_list.at) = 0 THEN [pass EXCEPT !.ran = TRUE]
                 ELSE [pass EXCEPT !.ran = TRUE, !.i = 1, !.pc = "scan"]
    /\ UNCHANGED <<i2c_adapter_idr, i2c_driver, userspace_clients, origin, call,
                   clients>>

\* one round of the loop of i2c_detect: i2c_detect_address on candidate i,
\* and the return of i2c_detect when that fails or the list ends
DetectAddress(probe_err, cb, fault) ==
    /\ det.pc = "scan"
    /\ LET drv == i2c_driver[det.driver]
           list == drv.address_list.at
           r == i2c_detect_address(det.adapter, list[det.i], probe_err, cb, fault)
           c == [adapter |-> det.adapter, addr |-> r.addr, flags |-> 0]
           over == r.err # 0 \/ det.i = Len(list)
       IN /\ IF r.created
             THEN /\ Registers(c, det.driver)
                  /\ i2c_driver' = [i2c_driver EXCEPT
                         ![det.driver].clients = Append(drv.clients, c)]
             ELSE UNCHANGED <<clients, origin, i2c_driver>>
          /\ det' = [det EXCEPT !.log = Append(det.log, r), !.err = r.err,
                                !.i = IF over THEN det.i ELSE det.i + 1,
                                !.pc = IF over THEN "walk" ELSE "scan"]
    /\ UNCHANGED <<i2c_adapter_idr, userspace_clients, call>>

\* every pair had its pass: the registration returns
RegistrationReturn ==
    /\ det.pc = "walk"
    /\ det.todo = <<>>
    /\ det' = IdleDet
    /\ UNCHANGED <<i2c_adapter_idr, i2c_driver, userspace_clients, origin, call,
                   clients>>

(***************************************************************************)
(* Removal of a driver or an adapter                                       *)
(***************************************************************************)
\* faulty variant: takes the clients off the list and leaves them registered
i2c_do_del_adapter_ListOnly(list, adapter) ==
    [kept |-> SelectSeq(list, LAMBDA c : c.adapter # adapter), gone |-> {}]

\* i2c_do_del_adapter on driver->clients: what stays on the list, and the
\* clients unregistered
i2c_do_del_adapter(list, adapter) ==
    [kept |-> SelectSeq(list, LAMBDA c : c.adapter # adapter),
     gone |-> {c \in Range(list) : c.adapter = adapter}]

\* i2c_do_del_adapter for each adapter in as, one after the other
RECURSIVE DelOnAdapters(_, _)
DelOnAdapters(list, as) ==
    IF as = <<>> THEN [kept |-> list, gone |-> {}]
    ELSE LET one == i2c_do_del_adapter(list, Head(as))
             rest == DelOnAdapters(one.kept, Tail(as))
         IN [kept |-> rest.kept, gone |-> one.gone \cup rest.gone]

WithOrigin(gone) == {[c |-> c, by |-> origin[c]] : c \in gone}

\* i2c_del_driver: __process_removed_driver on every adapter device, then
\* driver_unregister
i2c_del_driver(d) ==
    /\ det.pc = "idle"
    /\ i2c_driver[d].registered
    /\ LET r == DelOnAdapters(i2c_driver[d].clients,
                    SelectSeq(DetectAdapters, LAMBDA a : a \in DOMAIN i2c_adapter_idr))
       IN /\ Unregisters(r.gone)
          /\ i2c_driver' = [i2c_driver EXCEPT ![d] = [NoDriver EXCEPT !.clients = r.kept]]
          /\ call' = Called("del_driver", d, 0, 0, WithOrigin(r.gone))
    /\ UNCHANGED <<i2c_adapter_idr, userspace_clients, det>>

\* the clients in gone, each with who made it and the step of
\* i2c_del_adapter that unregistered it
InPassOf(gone, pass) == {[c |-> c, by |-> origin[c], pass |-> pass] : c \in gone}

\* device_for_each_child(&adap->dev, NULL, __unregister_client): every child
\* client whose name is not "dummy"
__unregister_client(children) == {c \in children : origin[c] # "dummy"}

\* faulty variant: the second walk over the children is left out
__unregister_dummy_Skips(children) == {}

\* device_for_each_child(&adap->dev, NULL, __unregister_dummy): every child
\* client that is left
__unregister_dummy(children) == children

\* the bus number of an adapter of this part: its place in DetectAdapters
AdapterNr(a) == CHOOSE k \in 0 .. (Len(DetectAdapters) - 1) : DetectAdapters[k + 1] = a

\* idr_find(&i2c_adapter_idr, nr) as i2c_get_adapter does it
AdapterAt(nr) ==
    IF \E a \in DOMAIN i2c_adapter_idr : AdapterNr(a) = nr
    THEN CHOOSE a \in DOMAIN i2c_adapter_idr : AdapterNr(a) = nr
    ELSE "NULL"

\* i2c_del_adapter: every driver drops its detected clients of the adapter,
\* the sysfs-made clients go, then every remaining child client, then the
\* adapter's number
i2c_del_adapter(a) ==
    /\ det.pc = "idle"
    /\ a \in DOMAIN i2c_adapter_idr
    /\ \A x \in DOMAIN i2c_adapter_idr : dev_parent(x) # a
    /\ LET r == [d \in Drivers |->
                    IF i2c_driver[d].registered
                    THEN i2c_do_del_adapter(i2c_driver[d].clients, a)
                    ELSE [kept |-> i2c_driver[d].clients, gone |-> {}]]
           detected == (UNION {r[d].gone : d \in Drivers}) \cap Live
           user == (Range(userspace_clients[a]) \cap Live) \ detected
           first == __unregister_client(
                        {c \in Live : c.adapter = a} \ (detected \cup user))
           second == __unregister_dummy(
                        {c \in Live : c.adapter = a} \ (detected \cup user \cup first))
       IN /\ Unregisters(detected \cup user \cup first \cup second)
          /\ i2c_driver' = [d \in Drivers |-> [i2c_driver[d] EXCEPT !.clients = r[d].kept]]
          /\ call' = Called("del_adapter", a, 0, 0,
                            InPassOf(detected, "__process_removed_adapter")
                                \cup InPassOf(user, "userspace_clients")
                                \cup InPassOf(first, "__unregister_client")
                                \cup InPassOf(second, "__unregister_dummy"))
    /\ userspace_clients' = [userspace_clients EXCEPT ![a] = <<>>]
    /\ i2c_adapter_idr' = [x \in DOMAIN i2c_adapter_idr \ {a} |-> i2c_adapter_idr[x]]
    /\ UNCHANGED det

(***************************************************************************)
(* sysfs: new_device and delete_device                                     *)
(***************************************************************************)
\* the value write() reports on success: the number of bytes written
count == 5

\* the 16-bit numbers written to the files: 0x51, 0xa050, 0x1050
SysfsAddrs == {81, 41040, 4176}

\* what is written to the file: a number, or text that does not parse
SysfsBufs ==
    [well_formed : {TRUE}, addr : SysfsAddrs] \cup {[well_formed |-> FALSE, addr |-> 81]}

\* new_device_store: the flag bits folded into the number become flags
sysfs_decode(addr) ==
    LET ten == BitAnd(addr, I2C_ADDR_OFFSET_TEN_BIT) = I2C_ADDR_OFFSET_TEN_BIT
        a1 == IF ten THEN addr - I2C_ADDR_OFFSET_TEN_BIT ELSE addr
        slave == BitAnd(a1, I2C_ADDR_OFFSET_SLAVE) # 0
        a2 == IF slave THEN a1 - I2C_ADDR_OFFSET_SLAVE ELSE a1
    IN [addr |-> a2,
        flags |-> BitOr(IF ten THEN I2C_CLIENT_TEN ELSE 0,
                        IF slave THEN I2C_CLIENT_SLAVE ELSE 0)]

\* sysfs_decode of the numbers the model writes, evaluated once
SysfsDecoded == [x \in SysfsAddrs |-> sysfs_decode(x)]

new_device_store(a, buf, fault) ==
    /\ det.pc = "idle"
    /\ a \in DOMAIN i2c_adapter_idr
    /\ LET parsed == SysfsDecoded[buf.addr]
           c == [adapter |-> a, addr |-> parsed.addr, flags |-> parsed.flags]
           st == new_client_status(a, c.addr, c.flags, fault)
       IN IF ~buf.well_formed
          THEN UNCHANGED <<clients, origin, userspace_clients>>
          ELSE IF st # 0
          THEN UNCHANGED <<clients, origin, userspace_clients>>
          ELSE /\ Registers(c, "sysfs")
               /\ userspace_clients' = [userspace_clients EXCEPT
                      ![a] = Append(userspace_clients[a], c)]
    /\ call' = NoCall
    /\ UNCHANGED <<i2c_adapter_idr, i2c_driver, det>>

\* faulty variant: walks the lists of all adapters
delete_device_list_AnyAdapter(a) ==
    userspace_clients[a] \o userspace_clients["root"] \o userspace_clients["muxA"]

\* the list delete_device_store walks
delete_device_list(a) == userspace_clients[a]

\* index of the first client on list whose encoded address is addr, or 0
FirstMatch(list, addr) ==
    LET hits == {k \in DOMAIN list : EncodedAddr[list[k].addr, list[k].flags] = addr}
    IN IF hits = {} THEN 0 ELSE CHOOSE k \in hits : \A j \in hits : k <= j

delete_device_store(a, buf) ==
    /\ det.pc = "idle"
    /\ a \in DOMAIN i2c_adapter_idr
    /\ LET list == delete_device_list(a)
           k == FirstMatch(list, buf.addr)
       IN IF ~buf.well_formed
          THEN /\ call' = Called("delete_device", a, buf.addr, -EINVAL, {})
               /\ UNCHANGED <<clients, origin, userspace_clients>>
          ELSE IF k = 0
          THEN /\ call' = Called("delete_device", a, buf.addr, -ENOENT, {})
               /\ UNCHANGED <<clients, origin, userspace_clients>>
          ELSE /\ Unregisters({list[k]})
               /\ userspace_clients' = [userspace_clients EXCEPT
                      ![a] = SelectSeq(userspace_clients[a], LAMBDA c : c # list[k])]
               /\ call' = Called("delete_device", a, buf.addr, count, WithOrigin({list[k]}))
    /\ UNCHANGED <<i2c_adapter_idr, i2c_driver, det>>

\* a driver or the firmware description instantiates a client itself
KernelNewDevice(a, addr, fault) ==
    /\ det.pc = "idle"
    /\ a \in DOMAIN i2c_adapter_idr
    /\ LET c == [adapter |-> a, addr |-> addr, flags |-> 0]
           st == new_client_status(a, addr, 0, fault)
       IN IF st # 0
          THEN UNCHANGED <<clients, origin>>
          ELSE Registers(c, "kernel")
    /\ call' = NoCall
    /\ UNCHANGED <<i2c_adapter_idr, i2c_driver, userspace_clients, det>>

\* i2c_new_dummy_device: a client named "dummy" holds the address
i2c_new_dummy_device(a, addr, fault) ==
    /\ det.pc = "idle"
    /\ a \in DOMAIN i2c_adapter_idr
    /\ LET c == [adapter |-> a, addr |-> addr, flags |-> 0]
           st == new_client_status(a, addr, 0, fault)
       IN IF st # 0
          THEN UNCHANGED <<clients, origin>>
          ELSE Registers(c, "dummy")
    /\ call' = NoCall
    /\ UNCHANGED <<i2c_adapter_idr, i2c_driver, userspace_clients, det>>

\* ... and unregisters it again
KernelUnregister(c) ==
    /\ det.pc = "idle"
    /\ c \in Live
    /\ origin[c] \in {"kernel", "dummy"}
    /\ Unregisters({c})
    /\ call' = NoCall
    /\ UNCHANGED <<i2c_adapter_idr, i2c_driver, userspace_clients, det>>

\* no adapter and no driver registered
NoDetection ==
    /\ i2c_adapter_idr = EmptyFcn
    /\ i2c_driver = [d \in Drivers |-> NoDriver]
    /\ userspace_clients = [a \in Range(DetectAdapters) |-> <<>>]
    /\ origin = EmptyFcn
    /\ det = IdleDet
    /\ call = NoCall

(***************************************************************************)
(* The address checks over the whole range; i2c_new_scanned_device         *)
(***************************************************************************)
\* the list handed to the scans: the address under test, then a usual one
addr_list == <<arg.addr, 81>>

\* nothing scanned yet
NoScanResult == [by |-> "none", probed |-> <<>>, addr |-> -1, status |-> 0]

\* the loop of i2c_new_scanned_device from entry i on: where it stops, and
\* the addresses it handed to probe; answers are the addresses that respond
RECURSIVE scan_loop(_, _, _, _)
scan_loop(adap, list, answers, i) ==
    IF i > Len(list) THEN [i |-> i, probed |-> <<>>]
    ELSE LET rest == scan_loop(adap, list, answers, i + 1)
         IN IF i2c_check_7bit_addr_validity_strict(list[i]) < 0 THEN rest
            ELSE IF i2c_check_addr_busy(adap, list[i]) # 0 THEN rest
            ELSE IF list[i] \in answers THEN [i |-> i, probed |-> <<list[i]>>]
            ELSE [i |-> rest.i, probed |-> <<list[i]>> \o rest.probed]

\* i2c_new_scanned_device(adap, info, addr_list, probe) with info->flags == 0:
\* -ENODEV when the loop ran off the list, else i2c_new_client_device
i2c_new_scanned_device(adap, list, answers, fault) ==
    LET l == scan_loop(adap, list, answers, 1)
        found == l.i <= Len(list)
        st == IF found THEN new_client_status(adap, list[l.i], 0, fault) ELSE -ENODEV
    IN [by |-> "i2c_new_scanned_device", probed |-> l.probed,
        addr |-> IF found /\ st = 0 THEN list[l.i] ELSE -1, status |-> st]

\* a kernel caller scans addr_list on the root adapter
NewScannedDevice(answers, fault) ==
    /\ pc[1] = "idle"
    /\ LET r == i2c_new_scanned_device("root", addr_list, answers, fault)
       IN /\ scanned' = r
          /\ IF r.addr # -1
             THEN Registers([adapter |-> "root", addr |-> r.addr, flags |-> 0], "kernel")
             ELSE UNCHANGED <<clients, origin>>
    /\ UNCHANGED <<addrs_in_instantiation, pc, info, status, arg>>

\* i2c_detect_address of driver d1 on the address under test
DetectGiven(probe_err, cb, fault) ==
    /\ pc[1] = "idle"
    /\ LET r == i2c_detect_address("root", arg.addr, probe_err, cb, fault)
       IN /\ scanned' = [by |-> "i2c_detect_address",
                         probed |-> IF r.probed THEN <<arg.addr>> ELSE <<>>,
                         addr |-> IF r.created THEN arg.addr ELSE -1,
                         status |-> r.err]
          /\ IF r.created
             THEN Registers([adapter |-> "root", addr |-> arg.addr, flags |-> 0], "d1")
             ELSE UNCHANGED <<clients, origin>>
    /\ UNCHANGED <<addrs_in_instantiation, pc, info, status, arg>>

\* i2c_new_client_device(root, info) with the address and flags under test
NewClientGiven ==
    /\ \/ NewClientEnter(1, "root", arg.addr, arg.flags)
       \/ pc[1] # "idle" /\ i2c_new_client_device(1)
    /\ UNCHANGED <<origin, arg, scanned>>

\* i2c_unregister_device of whatever was created
UnregisterGiven(c) ==
    /\ i2c_unregister_device(c)
    /\ origin' = [x \in DOMAIN origin \ {c} |-> origin[x]]
    /\ UNCHANGED <<arg, scanned>>

\* the kernel is built for ARM: CONFIG_X86 is not set
CONFIG_X86 == FALSE

\* what i2c_check_functionality can find in the adapter
Functionality ==
    {"I2C_FUNC_SMBUS_QUICK", "I2C_FUNC_SMBUS_READ_BYTE", "I2C_FUNC_SMBUS_READ_BYTE_DATA"}

\* no call of i2c_smbus_xfer
NoSmbusXfer == [read_write |-> "none", size |-> "none"]

\* faulty variant: only 0x50-0x57 kept from the quick write
quick_write_corrupts_FirstEight(addr) ==
    addr - (addr % 8) = 80

\* (addr & ~0x07) == 0x30 || (addr & ~0x0f) == 0x50
quick_write_corrupts(addr) ==
    \/ addr - (addr % 8) = 48
    \/ addr - (addr % 16) = 80

\* i2c_default_probe: the read_write and size it hands to i2c_smbus_xfer
i2c_default_probe_xfer(addr, class, func) ==
    IF /\ CONFIG_X86
       /\ addr = 115
       /\ BitAnd(class, I2C_CLASS_HWMON) # 0
       /\ "I2C_FUNC_SMBUS_READ_BYTE_DATA" \in func
    THEN [read_write |-> "I2C_SMBUS_READ", size |-> "I2C_SMBUS_BYTE_DATA"]
    ELSE IF ~quick_write_corrupts(addr) /\ "I2C_FUNC_SMBUS_QUICK" \in func
    THEN [read_write |-> "I2C_SMBUS_WRITE", size |-> "I2C_SMBUS_QUICK"]
    ELSE IF "I2C_FUNC_SMBUS_READ_BYTE" \in func
    THEN [read_write |-> "I2C_SMBUS_READ", size |-> "I2C_SMBUS_BYTE"]
    ELSE NoSmbusXfer

\* i2c_default_probe(adap, addr) on the address under test; err is what the
\* transaction returns when there is one
DefaultProbe(class, func, err) ==
    /\ LET x == i2c_default_probe_xfer(arg.addr, class, func)
           e == IF x = NoSmbusXfer THEN -EOPNOTSUPP ELSE err
       IN scanned' = [by |-> "i2c_default_probe", probed |-> <<>>, addr |-> -1,
                      status |-> IF i2c_default_probe(e) THEN 1 ELSE 0,
                      func |-> func, xfer |-> x]
    /\ UNCHANGED arg

\* no address under test
NoScan ==
    /\ arg = [addr |-> 0, flags |-> 0]
    /\ scanned = NoScanResult

(***************************************************************************)
(* The bus numbers: i2c_adapter_idr by number, static and dynamic ids      *)
(***************************************************************************)
ENOSPC == 28

\* the bus numbers are 0 .. MaxNr
MaxNr == 3

\* the struct i2c_adapter objects the callers own
AdapObjs == {"a1", "a2"}

\* a struct i2c_adapter nobody has registered yet
FreshAdap == [nr |-> -1, registered |-> FALSE, clients |-> 0, pc |-> "idle"]

\* the record a call on the registry leaves behind: has says whether the
\* adapter handed in has a name and an algo, ret is the value returned, dyn
\* whether idr_alloc handed out a dynamic id
NrCalled(op, x, has, ret, dyn) ==
    [op |-> op, adap |-> x, has |-> has, ret |-> ret, dyn |-> dyn]

NoNrCall == NrCalled("none", "NULL", <<TRUE, TRUE>>, 0, FALSE)

idr_find(map, id) == IF id \in DOMAIN map THEN map[id] ELSE "NULL"

idr_remove(map, id) == [n \in DOMAIN map \ {id} |-> map[n]]

\* idr_alloc(idr, ptr, start, end, gfp): the lowest free id in [start, end),
\* -ENOSPC if there is none; end <= 0 stands for no upper limit
idr_alloc(map, start, end) ==
    LET top == IF end <= 0 THEN MaxNr + 1 ELSE end
        free == {n \in start .. (top - 1) : n \notin DOMAIN map}
    IN IF free = {} THEN -ENOSPC ELSE CHOOSE n \in free : \A m \in free : n <= m

\* map with id pointing to ptr
idr_set(map, id, ptr) ==
    [n \in DOMAIN map \cup {id} |-> IF n = id THEN ptr ELSE map[n]]

\* i2c_get_adapter(nr), the module reference aside
i2c_get_adapter(nr) == idr_find(idr, nr)

\* of_alias_get_highest_id("i2c")
of_alias_get_highest_id ==
    IF declared.aliases = {} THEN -ENODEV
    ELSE CHOOSE n \in declared.aliases : \A m \in declared.aliases : m <= n

\* i2c_init: the aliases of the firmware move the first dynamic number, the
\* bus type gets registered
i2c_init ==
    /\ ~is_registered
    /\ __i2c_first_dynamic_bus_num' =
           IF of_alias_get_highest_id >= __i2c_first_dynamic_bus_num
           THEN of_alias_get_highest_id + 1
           ELSE __i2c_first_dynamic_bus_num
    /\ is_registered' = TRUE
    /\ nrcall' = NrCalled("i2c_init", "NULL", <<TRUE, TRUE>>, 0, FALSE)
    /\ UNCHANGED <<idr, adaps, declared>>

\* faulty variant: the declaration leaves the first dynamic number alone
first_dynamic_after_Unmoved(busnum) == __i2c_first_dynamic_bus_num

\* i2c_register_board_info: if (busnum >= __i2c_first_dynamic_bus_num)
\*     __i2c_first_dynamic_bus_num = busnum + 1;
first_dynamic_after(busnum) ==
    IF busnum >= __i2c_first_dynamic_bus_num
    THEN busnum + 1
    ELSE __i2c_first_dynamic_bus_num

i2c_register_board_info(busnum) ==
    /\ __i2c_first_dynamic_bus_num' = first_dynamic_after(busnum)
    /\ declared' = [declared EXCEPT !.list = @ \cup {busnum}]
    /\ nrcall' = NrCalled("i2c_register_board_info", "NULL", <<TRUE, TRUE>>, 0, FALSE)
    /\ UNCHANGED <<idr, adaps, is_registered>>

\* i2c_register_adapter: the value it returns; fault is what device_register
\* and the setup steps after it report
i2c_register_adapter_res(has_name, has_algo, fault) ==
    IF ~is_registered THEN -EAGAIN
    ELSE IF ~has_name THEN -EINVAL
    ELSE IF ~has_algo THEN -EINVAL
    ELSE fault

\* faulty variant: the error exit keeps the number
out_list_Keeps(map, nr) == map

\* out_list: idr_remove(&i2c_adapter_idr, adap->nr)
out_list(map, nr) == idr_remove(map, nr)

\* i2c_register_adapter of x, whose number id idr_alloc has just handed out
RegisterNumbered(x, id, has_name, has_algo, fault, dyn) ==
    LET res == i2c_register_adapter_res(has_name, has_algo, fault)
        map == idr_set(idr, id, x)
    IN /\ idr' = IF res = 0 THEN map ELSE out_list(map, id)
       /\ adaps' = [adaps EXCEPT ![x] =
                       [nr |-> id, registered |-> res = 0, clients |-> 0, pc |-> "idle"]]
       /\ nrcall' = NrCalled("add", x, <<has_name, has_algo>>, res, dyn)

\* __i2c_add_numbered_adapter with adap->nr == nr
__i2c_add_numbered_adapter(x, nr, has_name, has_algo, fault) ==
    LET id == idr_alloc(idr, nr, nr + 1)
    IN IF id < 0
       THEN /\ nrcall' = NrCalled("add", x, <<has_name, has_algo>>,
                                   IF id = -ENOSPC THEN -EBUSY ELSE id, FALSE)
            /\ adaps' = [adaps EXCEPT ![x].nr = nr]
            /\ UNCHANGED idr
       ELSE RegisterNumbered(x, id, has_name, has_algo, fault, FALSE)

\* i2c_add_adapter: the alias of the adapter's firmware node if it has one
\* (alias >= 0), else the lowest free number from the first dynamic one on
i2c_add_adapter(x, alias, has_name, has_algo, fault) ==
    /\ ~adaps[x].registered
    /\ IF alias >= 0
       THEN __i2c_add_numbered_adapter(x, alias, has_name, has_algo, fault)
       ELSE LET id == idr_alloc(idr, __i2c_first_dynamic_bus_num, 0)
            IN /\ id >= 0
               /\ RegisterNumbered(x, id, has_name, has_algo, fault, TRUE)
    /\ UNCHANGED <<__i2c_first_dynamic_bus_num, is_registered, declared>>

\* i2c_add_numbered_adapter with adap->nr == nr
i2c_add_numbered_adapter(x, nr, alias, has_name, has_algo, fault) ==
    IF nr = -1
    THEN i2c_add_adapter(x, alias, has_name, has_algo, fault)
    ELSE /\ ~adaps[x].registered
         /\ __i2c_add_numbered_adapter(x, nr, has_name, has_algo, fault)
         /\ UNCHANGED <<__i2c_first_dynamic_bus_num, is_registered, declared>>

\* a client device gets registered below the adapter
NewChildClient(x) ==
    /\ adaps[x].registered
    /\ adaps[x].clients = 0
    /\ adaps' = [adaps EXCEPT ![x].clients = 1]
    /\ nrcall' = NrCalled("i2c_new_client_device", x, <<TRUE, TRUE>>, 0, FALSE)
    /\ UNCHANGED <<idr, __i2c_first_dynamic_bus_num, is_registered, declared>>

\* faulty variant: any adapter found under the number will do
del_adapter_found_Any(x) == idr_find(idr, adaps[x].nr) # "NULL"

\* found = idr_find(&i2c_adapter_idr, adap->nr); found == adap
del_adapter_found(x) == idr_find(idr, adaps[x].nr) = x

\* i2c_del_adapter(adap) by number: nothing if the number does not lead to
\* adap; else the clients go, the device goes, the number is removed
i2c_del_adapter_nr(x) ==
    /\ IF ~del_adapter_found(x)
       THEN /\ nrcall' = NrCalled("i2c_del_adapter", x, <<TRUE, TRUE>>, 0, FALSE)
            /\ UNCHANGED <<idr, adaps>>
       ELSE /\ idr' = idr_remove(idr, adaps[x].nr)
            /\ adaps' = [adaps EXCEPT ![x].registered = FALSE, ![x].clients = 0]
            /\ nrcall' = NrCalled("i2c_del_adapter", x, <<TRUE, TRUE>>, 0, FALSE)
    /\ UNCHANGED <<__i2c_first_dynamic_bus_num, is_registered, declared>>

\* i2c_register_adapter of adapter a1, whose number is reserved and whose
\* device_register succeeds, from i2c_init_recovery to the return: out_reg
\* and out_list when the recovery setup defers, else return 0
RegisterAdapterNumbered(env) ==
    /\ RegisterAdapter(env)
    /\ adaps["a1"].pc = "i2c_register_adapter"
    /\ LET res == i2c_init_recovery(bri, env).ret
       IN IF recovery_aborts(res)
          THEN /\ idr' = out_list(idr, adaps["a1"].nr)
               /\ adaps' = [adaps EXCEPT !["a1"].registered = FALSE, !["a1"].pc = "idle"]
               /\ nrcall' = NrCalled("add", "a1", <<TRUE, TRUE>>, res, FALSE)
          ELSE /\ idr' = idr
               /\ adaps' = [adaps EXCEPT !["a1"].registered = TRUE, !["a1"].pc = "idle"]
               /\ nrcall' = NrCalled("add", "a1", <<TRUE, TRUE>>, 0, FALSE)
    /\ UNCHANGED <<__i2c_first_dynamic_bus_num, is_registered, declared>>

(***************************************************************************)
(* i2c_get_adapter between the steps of adding and deleting an adapter     *)
(***************************************************************************)
\* the adapters some number leads to
InIdr == {idr[n] : n \in DOMAIN idr}

\* the first critical section of i2c_add_adapter (nr == -1) or of
\* __i2c_add_numbered_adapter: idr_alloc under core_lock
AddReserve(x, nr) ==
    /\ adaps[x].pc = "idle"
    /\ ~adaps[x].registered
    /\ x \notin InIdr
    /\ LET id == IF nr = -1 THEN idr_alloc(idr, __i2c_first_dynamic_bus_num, 0)
                 ELSE idr_alloc(idr, nr, nr + 1)
       IN IF id < 0
          THEN /\ nrcall' = NrCalled("add", x, <<TRUE, TRUE>>,
                                      IF nr # -1 /\ id = -ENOSPC THEN -EBUSY ELSE id,
                                      nr = -1)
               /\ UNCHANGED <<idr, adaps>>
          ELSE /\ idr' = idr_set(idr, id, x)
               /\ adaps' = [adaps EXCEPT ![x].nr = id, ![x].pc = "i2c_register_adapter"]
               /\ nrcall' = NrCalled("idr_alloc", x, <<TRUE, TRUE>>, id, nr = -1)
    /\ UNCHANGED <<__i2c_first_dynamic_bus_num, is_registered, declared>>

\* i2c_register_adapter, called with the number reserved
AddRegister(x, has_name, has_algo, fault) ==
    /\ adaps[x].pc = "i2c_register_adapter"
    /\ LET res == i2c_register_adapter_res(has_name, has_algo, fault)
       IN /\ idr' = IF res = 0 THEN idr ELSE out_list(idr, adaps[x].nr)
          /\ adaps' = [adaps EXCEPT ![x].registered = res = 0, ![x].pc = "idle"]
          /\ nrcall' = NrCalled("add", x, <<has_name, has_algo>>, res, FALSE)
    /\ UNCHANGED <<__i2c_first_dynamic_bus_num, is_registered, declared>>

\* i2c_del_adapter: the first critical section, found = idr_find(...)
DelEnter(x) ==
    /\ adaps[x].pc = "idle"
    /\ IF ~del_adapter_found(x)
       THEN UNCHANGED adaps
       ELSE adaps' = [adaps EXCEPT ![x].pc = "detach"]
    /\ nrcall' = NrCalled("i2c_del_adapter", x, <<TRUE, TRUE>>, 0, FALSE)
    /\ UNCHANGED <<idr, __i2c_first_dynamic_bus_num, is_registered, declared>>

\* ... the driver callbacks and the walks that unregister the clients
DelDetach(x) ==
    /\ adaps[x].pc = "detach"
    /\ adaps' = [adaps EXCEPT ![x].clients = 0, ![x].pc = "device_unregister"]
    /\ UNCHANGED <<idr, __i2c_first_dynamic_bus_num, is_registered, declared, nrcall>>

\* ... device_unregister(&adap->dev) and the wait for the release
DelDeviceUnregister(x) ==
    /\ adaps[x].pc = "device_unregister"
    /\ adaps' = [adaps EXCEPT ![x].registered = FALSE, ![x].pc = "idr_remove"]
    /\ UNCHANGED <<idr, __i2c_first_dynamic_bus_num, is_registered, declared, nrcall>>

\* ... the last critical section, idr_remove
DelIdrRemove(x) ==
    /\ adaps[x].pc = "idr_remove"
    /\ idr' = idr_remove(idr, adaps[x].nr)
    /\ adaps' = [adaps EXCEPT ![x].pc = "idle"]
    /\ UNCHANGED <<__i2c_first_dynamic_bus_num, is_registered, declared, nrcall>>

\* a client device gets registered below an adapter nobody is working on
NewChildClientIdle(x) ==
    /\ adaps[x].pc = "idle"
    /\ NewChildClient(x)

\* i2c_get_adapter(nr), one critical section; try_module_get succeeds
GetAdapter(nr) ==
    /\ nrcall' = NrCalled("i2c_get_adapter", i2c_get_adapter(nr), <<TRUE, TRUE>>, nr, FALSE)
    /\ UNCHANGED <<idr, adaps, __i2c_first_dynamic_bus_num, is_registered, declared>>

(***************************************************************************)
(* i2c_lock_bus and i2c_unlock_bus on the default lock operations          *)
(***************************************************************************)
I2C_LOCK_ROOT_ADAPTER == 1

I2C_LOCK_SEGMENT == 2

\* how many bus locks a thread takes one inside the other
MaxHold == 2

\* faulty variant: the owner waits for itself like anybody else
rt_mutex_may_lock_Plain(owner, t) == owner = 0

\* the mutex behind bus_lock lets t in: it is free, or t owns it already
rt_mutex_may_lock(owner, t) == owner = 0 \/ owner = t

\* faulty variant: the lock is handed out whoever owns it
i2c_adapter_lock_bus_NoWait(adapter, flags, t) == TRUE

\* i2c_adapter_lock_bus(adapter, flags) can return to t:
\* rt_mutex_lock_nested(&adapter->bus_lock, i2c_adapter_depth(adapter));
\* flags plays no part
i2c_adapter_lock_bus(adapter, flags, t) == rt_mutex_may_lock(bus_lock[adapter], t)

\* the adapters t has locked by i2c_lock_bus and not unlocked
HeldBy(t) == {held[t][k].adapter : k \in 1 .. Len(held[t])}

\* i2c_lock_bus(adapter, flags) by a thread that is not inside i2c_transfer
i2c_lock_bus(t, adapter, flags) ==
    /\ xfer[t].pc = "idle"
    /\ Len(held[t]) < MaxHold
    /\ i2c_adapter_lock_bus(adapter, flags, t)
    /\ bus_lock' = [bus_lock EXCEPT ![adapter] = t]
    /\ held' = [held EXCEPT ![t] = Append(@, [adapter |-> adapter, flags |-> flags])]
    /\ UNCHANGED <<workload, i2c_adapter, in_atomic, locked_flags, suspend_log, jiffies, xfer>>

\* i2c_unlock_bus(adapter, flags) for the lock taken last; the mutex is free
\* once its owner has unlocked as often as it locked
i2c_unlock_bus_held(t) ==
    /\ held[t] # <<>>
    /\ LET n == Len(held[t])
           a == held[t][n].adapter
           rest == SubSeq(held[t], 1, n - 1)
       IN /\ held' = [held EXCEPT ![t] = rest]
          /\ bus_lock' = [bus_lock EXCEPT ![a] =
                             IF \E k \in 1 .. (n - 1) : rest[k].adapter = a THEN t ELSE 0]
    /\ UNCHANGED <<workload, i2c_adapter, in_atomic, locked_flags, suspend_log, jiffies, xfer>>

\* the middle of i2c_mark_adapter_suspended and i2c_mark_adapter_resumed:
\* set_bit or clear_bit of I2C_ALF_IS_SUSPENDED under the root-scope lock
MarkUnderLock(t) ==
    /\ held[t] # <<>>
    /\ LET top == held[t][Len(held[t])]
       IN /\ top.flags = I2C_LOCK_ROOT_ADAPTER
          /\ locked_flags' =
                 [locked_flags EXCEPT ![top.adapter] =
                     IF I2C_ALF_IS_SUSPENDED \in @
                     THEN @ \ {I2C_ALF_IS_SUSPENDED}
                     ELSE @ \cup {I2C_ALF_IS_SUSPENDED}]
    /\ UNCHANGED <<workload, i2c_adapter, in_atomic, bus_lock, jiffies, xfer, suspend_log, held>>

\* i2c_transfer by a thread that holds no bus lock
TransferUnlocked(t) ==
    /\ held[t] = <<>>
    /\ i2c_transfer(t)
    /\ UNCHANGED held

(***************************************************************************)
(* Clients made from device tree nodes                                     *)
(***************************************************************************)
\* the available child nodes of the root adapter's node, in the order of
\* for_each_available_child_of_node; two of them name the same address
Children == <<"n1", "n2", "n3">>

Nodes == {Children[k] : k \in DOMAIN Children}

\* the reg property of a node
reg(n) == IF n = "n3" THEN 81 ELSE 80

\* the client of_i2c_register_device makes of a node
OfClient(n) == [adapter |-> "root", addr |-> reg(n), flags |-> 0]

\* who runs the device tree code: i2c_register_adapter walking the children,
\* the reconfiguration notifier, and a caller of i2c_unregister_device
OfCallers == {"walk", "notify", "driver"}

IdleOf == [pc |-> "idle", node |-> "none", todo |-> <<>>, last |-> "none"]

\* of_find_i2c_device_by_node: the registered clients whose dev.of_node is n
of_find_i2c_device_by_node(n) == {c \in Live : origin[c] = n}

\* the callers that are between of_node_test_and_set_flag and the return of
\* of_i2c_register_device for node n
Creating(n) == {a \in OfCallers : of_call[a].pc = "register" /\ of_call[a].node = n}

\* faulty variant: the flag stays when the client could not be made
of_register_failed_Keeps(n) == OF_POPULATED

\* of_node_clear_flag(node, OF_POPULATED) after of_i2c_register_device failed
of_register_failed(n) == OF_POPULATED \ {n}

\* of_i2c_register_devices(adap): the entry, up to the loop
of_i2c_register_devices ==
    /\ of_call["walk"].pc = "idle"
    /\ of_call' = [of_call EXCEPT !["walk"].pc = "next", !["walk"].todo = Children]
    /\ UNCHANGED <<clients, origin, OF_POPULATED>>

\* the head of the loop body: of_node_test_and_set_flag(node, OF_POPULATED)
\* and continue, or on to of_i2c_register_device
WalkNext ==
    LET f == of_call["walk"]
    IN  /\ f.pc = "next"
        /\ IF f.todo = <<>>
           THEN /\ of_call' = [of_call EXCEPT !["walk"].pc = "done"]
                /\ UNCHANGED OF_POPULATED
           ELSE LET n == Head(f.todo)
                IN IF n \in OF_POPULATED
                   THEN /\ of_call' = [of_call EXCEPT !["walk"].todo = Tail(f.todo),
                                                      !["walk"].last = "skipped"]
                        /\ UNCHANGED OF_POPULATED
                   ELSE /\ OF_POPULATED' = OF_POPULATED \cup {n}
                        /\ of_call' = [of_call EXCEPT !["walk"].todo = Tail(f.todo),
                                                      !["walk"].pc = "register",
                                                      !["walk"].node = n]
        /\ UNCHANGED <<clients, origin>>

\* of_i2c_notify, OF_RECONFIG_CHANGE_ADD of node n below the adapter's node
NotifyAdd(n) ==
    /\ of_call["notify"].pc = "idle"
    /\ IF n \in OF_POPULATED
       THEN /\ of_call' = [of_call EXCEPT !["notify"].last = "add_skipped",
                                          !["notify"].node = n]
            /\ UNCHANGED OF_POPULATED
       ELSE /\ OF_POPULATED' = OF_POPULATED \cup {n}
            /\ of_call' = [of_call EXCEPT !["notify"].pc = "register",
                                          !["notify"].node = n,
                                          !["notify"].last = "add"]
    /\ UNCHANGED <<clients, origin>>

\* of_i2c_register_device(adap, node) and what its caller does with the
\* result: of_i2c_get_board_info returns board_info_ret, and
\* i2c_new_client_device runs when that is 0
of_i2c_register_device(a, board_info_ret, fault) ==
    LET f == of_call[a]
        n == f.node
        st == IF board_info_ret # 0 THEN board_info_ret
              ELSE new_client_status("root", reg(n), 0, fault)
    IN  /\ f.pc = "register"
        /\ IF st = 0
           THEN /\ Registers(OfClient(n), n)
                /\ UNCHANGED OF_POPULATED
           ELSE /\ OF_POPULATED' = of_register_failed(n)
                /\ UNCHANGED <<clients, origin>>
        /\ of_call' = [of_call EXCEPT ![a].pc = IF a = "walk" THEN "next" ELSE "idle",
                                      ![a].last = IF st = 0 THEN "created" ELSE "failed"]

\* i2c_unregister_device(client) of a client with dev.of_node:
\* of_node_clear_flag(client->dev.of_node, OF_POPULATED), device_unregister
UnregisterOf(a, c) ==
    /\ OF_POPULATED' = OF_POPULATED \ {origin[c]}
    /\ Unregisters({c})
    /\ of_call' = [of_call EXCEPT ![a].node = origin[c], ![a].last = "unregistered"]

\* of_i2c_notify, OF_RECONFIG_CHANGE_REMOVE of node n
NotifyRemove(n) ==
    /\ of_call["notify"].pc = "idle"
    /\ IF n \notin OF_POPULATED
       THEN /\ of_call' = [of_call EXCEPT !["notify"].last = "remove_unpopulated",
                                          !["notify"].node = n]
            /\ UNCHANGED <<clients, origin, OF_POPULATED>>
       ELSE IF of_find_i2c_device_by_node(n) = {}
       THEN /\ of_call' = [of_call EXCEPT !["notify"].last = "remove_not_found",
                                          !["notify"].node = n]
            /\ UNCHANGED <<clients, origin, OF_POPULATED>>
       ELSE \E c \in of_find_i2c_device_by_node(n) : UnregisterOf("notify", c)

\* a driver hands a client made from a node to i2c_unregister_device
DriverUnregister(c) ==
    /\ of_call["driver"].pc = "idle"
    /\ c \in Live
    /\ origin[c] \in Nodes
    /\ UnregisterOf("driver", c)

\* no node is populated, nobody is in the device tree code
NoNodes ==
    /\ OF_POPULATED = {}
    /\ of_call = [a \in OfCallers |-> IdleOf]

\* no bus lock taken by i2c_lock_bus
NoHolds == held = [t \in Threads |-> <<>>]

\* the number registry before i2c_init
NoNumbers ==
    /\ idr = EmptyFcn
    /\ adaps = EmptyFcn
    /\ __i2c_first_dynamic_bus_num = 0
    /\ is_registered = FALSE
    /\ declared = [list |-> {}, aliases |-> {}]
    /\ nrcall = NoNrCall

(***************************************************************************)
(* Specifications                                                          *)
(***************************************************************************)
\* client instantiation and removal; no transfers
Init ==
    /\ NoClients
    /\ QuietBus
    /\ NoRecovery
    /\ NoDetection
    /\ NoScan
    /\ NoHolds
    /\ NoNumbers
    /\ NoNodes
    /\ workload = [callers |-> {}, adapters |-> {}, pool |-> "none", ks |-> {}]
    /\ i2c_adapter \in AdapterSettings({TRUE}, {FALSE}, {"NULL"}, {0}, {1})
    /\ in_atomic = FALSE

Next ==
    \/ (\E t \in Threads : i2c_new_client_device(t)) /\ UNCHANGED <<xvars, rvars, dvars, evars>>
    \/ (\E c \in BagToSet(clients) : i2c_unregister_device(c)) /\ UNCHANGED <<xvars, rvars, dvars, evars>>

Spec == Init /\ [][Next]_vars

\* every thread instantiates at 0x50 of the root adapter, as a 7-bit
\* address, as the adapter's own slave address, as a 10-bit address
NextMarker ==
    \/ (\E t \in Threads : NewClientAt0x50(t)) /\ UNCHANGED <<xvars, rvars, dvars, evars>>
    \/ (\E c \in BagToSet(clients) : i2c_unregister_device(c)) /\ UNCHANGED <<xvars, rvars, dvars, evars>>

SpecMarker == Init /\ [][NextMarker]_vars

\* one caller, every batch, every quirk declaration, on a bus that never
\* loses arbitration
InitQuirks ==
    /\ NoClients
    /\ QuietBus
    /\ NoRecovery
    /\ NoDetection
    /\ NoScan
    /\ NoHolds
    /\ NoNumbers
    /\ NoNodes
    /\ workload = [callers |-> {1}, adapters |-> {"root"}, pool |-> "every", ks |-> {0}]
    /\ i2c_adapter \in AdapterSettings(BOOLEAN, {TRUE}, QuirkNames \cup {"NULL"}, {0}, {1})
    /\ in_atomic \in BOOLEAN

\* one caller, one batch, no quirks, every retry count and timeout, on a bus
\* that loses arbitration any number of times
InitRetry ==
    /\ NoClients
    /\ QuietBus
    /\ NoRecovery
    /\ NoDetection
    /\ NoScan
    /\ NoHolds
    /\ NoNumbers
    /\ NoNodes
    /\ workload = [callers |-> {1}, adapters |-> {"root"},
                   pool |-> "one", ks |-> 0..(MaxRetries + 1)]
    /\ i2c_adapter \in AdapterSettings({TRUE}, BOOLEAN, {"NULL"}, 0..MaxRetries, 1..MaxTimeout)
    /\ in_atomic \in BOOLEAN

\* every thread a caller, on the root adapter and one mux channel
InitBus ==
    /\ NoClients
    /\ QuietBus
    /\ NoRecovery
    /\ NoDetection
    /\ NoScan
    /\ NoHolds
    /\ NoNumbers
    /\ NoNodes
    /\ workload = [callers |-> Threads, adapters |-> {"root", "muxA"},
                   pool |-> "one", ks |-> {0, 1}]
    /\ i2c_adapter \in AdapterSettings({TRUE}, {TRUE}, {"NULL"}, {1}, {1})
    /\ in_atomic \in BOOLEAN

\* the steps of the callers of i2c_transfer
Transfers == (\E t \in workload.callers : i2c_transfer(t)) /\ UNCHANGED <<avars, rvars, dvars, evars>>

NextXfer ==
    \/ Transfers
    \/ Tick /\ UNCHANGED <<avars, rvars, dvars, evars>>
    \/ (\E a \in workload.adapters : i2c_mark_adapter_suspended(a)) /\ UNCHANGED <<avars, rvars, dvars, evars>>
    \/ (\E a \in workload.adapters : i2c_mark_adapter_resumed(a)) /\ UNCHANGED <<avars, rvars, dvars, evars>>

SpecQuirks == InitQuirks /\ [][NextXfer]_vars

SpecRetry == InitRetry /\ [][NextXfer]_vars

\* the caller and the primitive keep running
SpecRetryFair == SpecRetry /\ WF_vars(Transfers)

SpecBus == InitBus /\ [][NextXfer]_vars

\* an adapter is registered with a recovery descriptor of its driver's
\* making, and its bus is recovered any number of times
InitRecovery ==
    /\ NoClients
    /\ QuietBus
    /\ workload = [callers |-> {}, adapters |-> {}, pool |-> "none", ks |-> {}]
    /\ i2c_adapter \in AdapterSettings({TRUE}, {FALSE}, {"NULL"}, {0}, {1})
    /\ in_atomic = FALSE
    /\ bri \in Descriptors \cup {NullBri}
    /\ registered = [state |-> "new", init_recovery |-> 0]
    /\ rec = IdleRec
    /\ NoDetection
    /\ NoScan
    /\ NoHolds
    /\ idr = idr_set(EmptyFcn, 0, "a1")
    /\ adaps = [x \in AdapObjs |->
                   IF x = "a1" THEN [FreshAdap EXCEPT !.nr = 0, !.pc = "i2c_register_adapter"]
                   ELSE FreshAdap]
    /\ __i2c_first_dynamic_bus_num = 0
    /\ is_registered = TRUE
    /\ declared = [list |-> {}, aliases |-> {}]
    /\ nrcall = NrCalled("idr_alloc", "a1", <<TRUE, TRUE>>, 0, FALSE)
    /\ NoNodes

NextRecovery ==
    \/ (\E env \in Platforms : RegisterAdapterNumbered(env))
           /\ UNCHANGED <<avars, xvars, dvars, vvars, lvars, fvars>>
    \/ (\E r \in {0, -EBUSY} : i2c_recover_bus(r)) /\ UNCHANGED <<avars, xvars, dvars, evars>>
    \/ (\E s \in {0, 1}, r \in Readings : RecoveryPulse(s, r)) /\ UNCHANGED <<avars, xvars, dvars, evars>>
    \/ RecoveryExit /\ UNCHANGED <<avars, xvars, dvars, evars>>
    \/ RecoveryReturn /\ UNCHANGED <<avars, xvars, dvars, evars>>

SpecRecovery == InitRecovery /\ [][NextRecovery]_vars

\* every routine that was started keeps running
SpecRecoveryFair == SpecRecovery /\ WF_vars(NextRecovery)

\* adapters and drivers come and go, detection runs at each registration,
\* and the sysfs files are written; no call of i2c_new_client_device is
\* left half-way and no transfer runs
InitDetect ==
    /\ NoClients
    /\ QuietBus
    /\ NoRecovery
    /\ NoDetection
    /\ NoScan
    /\ NoHolds
    /\ NoNumbers
    /\ NoNodes
    /\ workload = [callers |-> {}, adapters |-> {}, pool |-> "none", ks |-> {}]
    /\ i2c_adapter \in AdapterSettings({TRUE}, {FALSE}, {"NULL"}, {0}, {1})
    /\ in_atomic = FALSE

\* what the calls of this part leave alone
ovars == <<addrs_in_instantiation, pc, info, status, xvars, rvars, evars>>

NextDetect ==
    \/ (\E d \in Drivers : \E cfg \in DriverConfigs[d] : i2c_register_driver(d, cfg))
           /\ UNCHANGED ovars
    \/ (\E a \in Range(DetectAdapters) : \E class \in AdapterClasses[a] :
           i2c_register_adapter(a, class)) /\ UNCHANGED ovars
    \/ (\E alloc \in BOOLEAN : i2c_do_add_adapter(alloc)) /\ UNCHANGED ovars
    \/ (\E probe_err \in {0, -ENXIO}, cb \in Callbacks, fault \in NewClientFaults :
           DetectAddress(probe_err, cb, fault)) /\ UNCHANGED ovars
    \/ RegistrationReturn /\ UNCHANGED ovars
    \/ (\E d \in Drivers : i2c_del_driver(d)) /\ UNCHANGED ovars
    \/ (\E a \in Range(DetectAdapters) : i2c_del_adapter(a)) /\ UNCHANGED ovars
    \/ (\E a \in Range(DetectAdapters), buf \in SysfsBufs, fault \in NewClientFaults :
           new_device_store(a, buf, fault)) /\ UNCHANGED ovars
    \/ (\E a \in Range(DetectAdapters), buf \in SysfsBufs :
           delete_device_store(a, buf)) /\ UNCHANGED ovars
    \/ (\E a \in Range(DetectAdapters), addr \in {80}, fault \in NewClientFaults :
           KernelNewDevice(a, addr, fault)) /\ UNCHANGED ovars
    \/ (\E a \in Range(DetectAdapters), fault \in NewClientFaults :
           i2c_new_dummy_device(a, 81, fault)) /\ UNCHANGED ovars
    \/ (\E c \in Live : KernelUnregister(c)) /\ UNCHANGED ovars

SpecDetect == InitDetect /\ [][NextDetect]_vars

\* one address and flag word, drawn from the whole range, goes through
\* i2c_new_client_device, i2c_detect_address and i2c_new_scanned_device
InitValidity ==
    /\ NoClients
    /\ QuietBus
    /\ NoRecovery
    /\ NoDetection
    /\ NoHolds
    /\ NoNumbers
    /\ NoNodes
    /\ workload = [callers |-> {}, adapters |-> {}, pool |-> "none", ks |-> {}]
    /\ i2c_adapter \in AdapterSettings({TRUE}, {FALSE}, {"NULL"}, {0}, {1})
    /\ in_atomic = FALSE
    /\ arg \in [addr : CheckAddrs, flags : InfoFlags]
    /\ scanned = NoScanResult

\* what the calls of this part leave alone
wvars == <<xvars, rvars, i2c_adapter_idr, i2c_driver, userspace_clients, det, call,
           lvars, nvars, fvars>>

NextValidity ==
    \/ NewClientGiven /\ UNCHANGED wvars
    \/ (\E c \in Live : UnregisterGiven(c)) /\ UNCHANGED wvars
    \/ (\E answers \in SUBSET {81, arg.addr}, fault \in NewClientFaults :
           NewScannedDevice(answers, fault)) /\ UNCHANGED wvars
    \/ (\E probe_err \in {0, -ENXIO}, cb \in Callbacks, fault \in NewClientFaults :
           DetectGiven(probe_err, cb, fault)) /\ UNCHANGED wvars

SpecValidity == InitValidity /\ [][NextValidity]_vars

\* the default probe on every address, on adapters of every functionality
NextProbe ==
    (\E class \in {0, I2C_CLASS_HWMON}, func \in SUBSET Functionality, err \in {0, -ENXIO} :
         DefaultProbe(class, func, err))
        /\ UNCHANGED <<avars, xvars, rvars, dvars, lvars, nvars, fvars>>

SpecProbe == InitValidity /\ [][NextProbe]_vars

\* the root adapter is registered with a device tree node of three children,
\* while nodes are added and removed and clients are unregistered
InitOf ==
    /\ NoClients
    /\ QuietBus
    /\ NoRecovery
    /\ NoDetection
    /\ NoScan
    /\ NoHolds
    /\ NoNumbers
    /\ NoNodes
    /\ workload = [callers |-> {}, adapters |-> {}, pool |-> "none", ks |-> {}]
    /\ i2c_adapter \in AdapterSettings({TRUE}, {FALSE}, {"NULL"}, {0}, {1})
    /\ in_atomic = FALSE

\* what the device tree code leaves alone
gvars == <<addrs_in_instantiation, pc, info, status, xvars, rvars,
           i2c_adapter_idr, i2c_driver, userspace_clients, det, call,
           vvars, lvars, nvars>>

NextOf ==
    \/ of_i2c_register_devices /\ UNCHANGED gvars
    \/ WalkNext /\ UNCHANGED gvars
    \/ (\E n \in Nodes : NotifyAdd(n)) /\ UNCHANGED gvars
    \/ (\E a \in OfCallers, r \in {0, -EINVAL}, fault \in NewClientFaults :
           of_i2c_register_device(a, r, fault)) /\ UNCHANGED gvars
    \/ (\E n \in Nodes : NotifyRemove(n)) /\ UNCHANGED gvars
    \/ (\E c \in Live : DriverUnregister(c)) /\ UNCHANGED gvars

SpecOf == InitOf /\ [][NextOf]_vars

\* the firmware declares its aliases; board files declare bus numbers;
\* adapters are added by number, by alias and dynamically, and deleted
InitNumbers ==
    /\ NoClients
    /\ QuietBus
    /\ NoRecovery
    /\ NoDetection
    /\ NoScan
    /\ NoHolds
    /\ workload = [callers |-> {}, adapters |-> {}, pool |-> "none", ks |-> {}]
    /\ i2c_adapter \in AdapterSettings({TRUE}, {FALSE}, {"NULL"}, {0}, {1})
    /\ in_atomic = FALSE
    /\ idr = EmptyFcn
    /\ adaps = [x \in AdapObjs |-> FreshAdap]
    /\ __i2c_first_dynamic_bus_num = 0
    /\ is_registered = FALSE
    /\ declared \in [list : {{}}, aliases : {{}, {1}}]
    /\ nrcall = NoNrCall
    /\ NoNodes

\* what the calls of this part leave alone
mvars == <<avars, xvars, rvars, dvars, vvars, lvars, fvars>>

NextNumbers ==
    \/ i2c_init /\ UNCHANGED mvars
    \/ (\E busnum \in 0 .. (MaxNr - 2) : i2c_register_board_info(busnum))
           /\ UNCHANGED mvars
    \/ (\E x \in AdapObjs, alias \in {-1} \cup declared.aliases,
           has_name \in BOOLEAN, has_algo \in BOOLEAN, fault \in {0, -ENOMEM} :
           i2c_add_adapter(x, alias, has_name, has_algo, fault)) /\ UNCHANGED mvars
    \/ (\E x \in AdapObjs, nr \in -1 .. MaxNr,
           has_name \in BOOLEAN, has_algo \in BOOLEAN, fault \in {0, -ENOMEM} :
           i2c_add_numbered_adapter(x, nr, -1, has_name, has_algo, fault))
           /\ UNCHANGED mvars
    \/ (\E x \in AdapObjs : NewChildClient(x)) /\ UNCHANGED mvars
    \/ (\E x \in AdapObjs : i2c_del_adapter_nr(x)) /\ UNCHANGED mvars

SpecNumbers == InitNumbers /\ [][NextNumbers]_vars

\* the same registry, each call taken one critical section at a time, with
\* i2c_get_adapter in between
NextGet ==
    \/ i2c_init /\ UNCHANGED mvars
    \/ (\E x \in AdapObjs, nr \in -1 .. (MaxNr - 1) : AddReserve(x, nr)) /\ UNCHANGED mvars
    \/ (\E x \in AdapObjs, has_name \in BOOLEAN, has_algo \in BOOLEAN, fault \in {0, -ENOMEM} :
           AddRegister(x, has_name, has_algo, fault)) /\ UNCHANGED mvars
    \/ (\E x \in AdapObjs : NewChildClientIdle(x)) /\ UNCHANGED mvars
    \/ (\E x \in AdapObjs : DelEnter(x)) /\ UNCHANGED mvars
    \/ (\E x \in AdapObjs : DelDetach(x)) /\ UNCHANGED mvars
    \/ (\E x \in AdapObjs : DelDeviceUnregister(x)) /\ UNCHANGED mvars
    \/ (\E x \in AdapObjs : DelIdrRemove(x)) /\ UNCHANGED mvars
    \/ (\E nr \in 0 .. MaxNr : GetAdapter(nr)) /\ UNCHANGED mvars

SpecGet == InitNumbers /\ [][NextGet]_vars

\* every thread locks and unlocks the buses of the root adapter and of one
\* mux channel, at either scope, and transfers when it holds no lock
InitLock ==
    /\ NoClients
    /\ QuietBus
    /\ NoRecovery
    /\ NoDetection
    /\ NoScan
    /\ NoHolds
    /\ NoNumbers
    /\ NoNodes
    /\ workload = [callers |-> Threads, adapters |-> {"root", "muxA"},
                   pool |-> "one", ks |-> {0}]
    /\ i2c_adapter \in AdapterSettings({TRUE}, {FALSE}, {"NULL"}, {0}, {1})
    /\ in_atomic = FALSE

\* what the calls of this part leave alone
kvars == <<avars, rvars, dvars, vvars, nvars, fvars>>

NextLock ==
    \/ (\E t \in Threads, a \in workload.adapters,
           flags \in {I2C_LOCK_ROOT_ADAPTER, I2C_LOCK_SEGMENT} :
           i2c_lock_bus(t, a, flags)) /\ UNCHANGED kvars
    \/ (\E t \in Threads : i2c_unlock_bus_held(t)) /\ UNCHANGED kvars
    \/ (\E t \in Threads : MarkUnderLock(t)) /\ UNCHANGED kvars
    \/ (\E t \in workload.callers : TransferUnlocked(t)) /\ UNCHANGED kvars

SpecLock == InitLock /\ [][NextLock]_vars

(***************************************************************************)
(* Relations on the adapter tree used to state the properties              *)
(***************************************************************************)
RECURSIVE IsAncestor(_, _)
\* a is a proper ancestor of b
IsAncestor(a, b) ==
    /\ dev_parent(b) # NoAdapter
    /\ (dev_parent(b) = a \/ IsAncestor(a, dev_parent(b)))

\* same adapter, or one an ancestor of the other
OnePath(a, b) == a = b \/ IsAncestor(a, b) \/ IsAncestor(b, a)

RECURSIVE RootOf(_)
RootOf(a) == IF dev_parent(a) = NoAdapter THEN a ELSE RootOf(dev_parent(a))

\* both adapters hang off one root adapter
CommonRoot(a, b) == RootOf(a) = RootOf(b)

Encoded(c) == EncodedAddr[c.addr, c.flags]

SameEncoded(c, d) == Encoded(c) = Encoded(d)

Is7Bit(c) == c # NoInfo /\ ~TenBit[c.flags]

\* the pairs <<a, b>> of adapters with a = b or one an ancestor of the other
OnePathPairs == {p \in Adapters \X Adapters : OnePath(p[1], p[2])}

\* thread t performs the busy check in this step
CheckBusyStep(t) == pc[t] = "check_busy" /\ pc'[t] # "check_busy"

\* thread t leaves the error exit in this step
OutErrStep(t) == pc[t] = "out_err" /\ pc'[t] # "out_err"

\* the positions at which a call has passed i2c_lock_addr and not yet i2c_unlock_addr
PastMarker == {"check_busy", "register", "unlock_addr", "out_err"}

C2_UniqueOnPath ==
    \A c \in BagToSet(clients) :
        /\ CopiesIn(c, clients) = 1
        /\ \A d \in BagToSet(clients) :
               (d # c /\ SameEncoded(c, d)) => ~IsAncestor(d.adapter, c.adapter)

(***************************************************************************)
(* C3: in every state reached by any sequence of i2c_new_client_device and *)
(* i2c_unregister_device calls, for adapter X and flagged address A,       *)
(* i2c_check_addr_busy(X, A) reports not busy when no client with A is     *)
(* registered on X, on an ancestor of X or in the sub-tree of X (before a  *)
(* client is created and again after it is destroyed), and reports busy    *)
(* when a client with A is registered on X.                                *)
(***************************************************************************)
Encodings == {EncodedAddr[a, f] : a \in {n \in InfoAddrs : n < 128}, f \in InfoFlags}

HoldersOnPath(X, A) ==
    {c \in BagToSet(clients) : Encoded(c) = A /\ <<c.adapter, X>> \in OnePathPairs}

C3_BusyTracksClients ==
    \A X \in Adapters, A \in Encodings :
        /\ HoldersOnPath(X, A) = {} => i2c_check_addr_busy(X, A) = 0
        /\ (\E c \in BagToSet(clients) : c.adapter = X /\ Encoded(c) = A)
           => i2c_check_addr_busy(X, A) = -EBUSY

\* a registered client makes its own adapter report busy
C3_Witness ==
    \E c \in BagToSet(clients) :
        /\ HoldersOnPath(c.adapter, Encoded(c)) = {c}
        /\ i2c_check_addr_busy(c.adapter, Encoded(c)) = -EBUSY

(***************************************************************************)
(* C4: for each adapter and 7-bit address at most one call is between      *)
(* i2c_lock_addr and i2c_unlock_addr; a call that reaches i2c_lock_addr    *)
(* meanwhile returns -EBUSY and changes neither the clients nor the        *)
(* marker; and at most one client with a given 7-bit flag-encoded address  *)
(* is registered on an adapter.                                            *)
(***************************************************************************)
Instantiating(a, n) ==
    {t \in Threads : pc[t] \in PastMarker /\ Is7Bit(info[t])
                     /\ info[t].adapter = a /\ info[t].addr = n}

C4_OneInstantiation ==
    [][/\ \A a \in Adapters, n \in InfoAddrs : Cardinality(Instantiating(a, n)) <= 1
       /\ \A c \in BagToSet(clients) : Is7Bit(c) => CopiesIn(c, clients) = 1
       /\ \A t \in Threads :
            (/\ pc[t] = "lock_addr" /\ pc'[t] # "lock_addr"
             /\ Is7Bit(info[t])
             /\ Instantiating(info[t].adapter, info[t].addr) # {})
            => /\ pc'[t] = "return" /\ status'[t] = -EBUSY
               /\ clients' = clients
               /\ addrs_in_instantiation' = addrs_in_instantiation]_vars

\* a second call for the 7-bit address arrives while the first holds the marker
C4_Witness ==
    \E t, u \in Threads :
        /\ t # u
        /\ pc[t] = "lock_addr" /\ Is7Bit(info[t])
        /\ u \in Instantiating(info[t].adapter, info[t].addr)

(***************************************************************************)
(* C5: the bits set in an adapter's addrs_in_instantiation are exactly the *)
(* 7-bit addresses of the calls between i2c_lock_addr and i2c_unlock_addr  *)
(* on that adapter; with no call in progress the bitmap is all zero.       *)
(***************************************************************************)
C5_MarkerCleared ==
    \A a \in Adapters :
        addrs_in_instantiation[a] =
            {n \in InfoAddrs : Instantiating(a, n) # {}}

\* a call that failed in device_register has returned and no marker is left
C5_Witness ==
    /\ \E t \in Threads : pc[t] = "return" /\ status[t] = -EEXIST
    /\ \A t \in Threads : pc[t] \in {"idle", "return"}
    /\ \A a \in Adapters : addrs_in_instantiation[a] = {}

(***************************************************************************)
(* Observations on a call of __i2c_transfer                                *)
(***************************************************************************)
\* __i2c_transfer has returned to i2c_transfer, which still holds the bus
Returned(t) == xfer[t].pc = "unlock_bus"

\* between taking and releasing the bus lock
InBatch(t) == xfer[t].pc \in {"__i2c_transfer", "in_xfer", "unlock_bus"}

Suspended(a) == I2C_ALF_IS_SUSPENDED \in locked_flags[a]

\* the call has a batch of at least one message
HasBatch(t) == ~xfer[t].args.null /\ xfer[t].args.num >= 1

\* the batch breaks the quirks the adapter declares
ViolatesQuirks(t) ==
    /\ i2c_adapter.quirks # "NULL"
    /\ HasBatch(t)
    /\ \/ i2c_check_for_quirks(QuirkTable[i2c_adapter.quirks],
                               xfer[t].args.msgs, xfer[t].args.num) # 0
       \/ i2c_adapter.quirks = "one_msg" /\ xfer[t].args.num = 2

\* time since the first attempt exceeds the adapter timeout
TimedOut(t) == jiffies > xfer[t].orig_jiffies + i2c_adapter.timeout

\* the bus loses arbitration on every attempt the call can make
AlwaysArbLost(t) == xfer[t].k > i2c_adapter.retries

\* C6: __i2c_transfer checks in this order and, on the first check that
\* fails, returns without invoking a primitive: no transfer primitive gives
\* -EOPNOTSUPP; otherwise a missing batch or num < 1 gives -EINVAL; otherwise
\* a suspended adapter gives -ESHUTDOWN.
C6_PreconditionOrder ==
    \A t \in Threads :
        Returned(t) =>
            /\ ~i2c_adapter.master_xfer =>
                   xfer[t].ret = -EOPNOTSUPP /\ xfer[t].calls = 0
            /\ i2c_adapter.master_xfer /\ ~HasBatch(t) =>
                   xfer[t].ret = -EINVAL /\ xfer[t].calls = 0
            /\ i2c_adapter.master_xfer /\ HasBatch(t) /\ Suspended(xfer[t].adapter) =>
                   xfer[t].ret = -ESHUTDOWN /\ xfer[t].calls = 0

\* a call without a batch on a suspended adapter was answered -EINVAL
C6_Witness ==
    \E t \in Threads :
        /\ Returned(t)
        /\ i2c_adapter.master_xfer
        /\ xfer[t].args.null
        /\ Suspended(xfer[t].adapter)
        /\ xfer[t].ret = -EINVAL
        /\ xfer[t].calls = 0

\* C7 as stated: whenever the adapter declares quirks and the batch violates
\* one, __i2c_transfer returns -EOPNOTSUPP and invokes no primitive.
C7_ViolationUnsupported ==
    \A t \in Threads :
        Returned(t) /\ ViolatesQuirks(t) =>
            xfer[t].ret = -EOPNOTSUPP /\ xfer[t].calls = 0

\* C7: a batch that violates the declared quirks never reaches a primitive;
\* __i2c_transfer returns -EOPNOTSUPP, except that an adapter which has a
\* transfer primitive and is marked suspended answers -ESHUTDOWN first.
C7_ViolationRejected ==
    \A t \in Threads :
        Returned(t) /\ ViolatesQuirks(t) =>
            /\ xfer[t].calls = 0
            /\ xfer[t].ret = IF i2c_adapter.master_xfer /\ Suspended(xfer[t].adapter)
                             THEN -ESHUTDOWN
                             ELSE -EOPNOTSUPP

\* two messages were offered to a working adapter that declares
\* max_num_msgs = 1, and were refused
C7_Witness ==
    \E t \in Threads :
        /\ Returned(t)
        /\ i2c_adapter.master_xfer
        /\ i2c_adapter.quirks = "one_msg"
        /\ xfer[t].args.num = 2
        /\ ~Suspended(xfer[t].adapter)
        /\ xfer[t].ret = -EOPNOTSUPP
        /\ xfer[t].calls = 0

\* C8: when the primitive loses arbitration k times and then returns r, with
\* k <= retries and the timeout not exceeded, __i2c_transfer has invoked it
\* k + 1 times and returns r; with k = 0 it is invoked once whatever the
\* time; every invocation is handed the whole batch of the call.
C8_RetryUntilResult ==
    \A t \in Threads :
        /\ xfer[t].pc = "in_xfer" =>
               /\ xfer[t].prim.args = xfer[t].args
               /\ xfer[t].prim.fn = Primitive
        /\ Returned(t) /\ __i2c_transfer_checks(xfer[t].adapter, xfer[t].args) = 0 =>
               /\ xfer[t].k <= i2c_adapter.retries /\ ~TimedOut(t) =>
                      xfer[t].calls = xfer[t].k + 1 /\ xfer[t].ret = xfer[t].r
               /\ xfer[t].k = 0 =>
                      xfer[t].calls = 1 /\ xfer[t].ret = xfer[t].r

\* arbitration was lost twice, the third invocation moved both messages
C8_Witness ==
    \E t \in Threads :
        /\ Returned(t)
        /\ xfer[t].k = 2
        /\ xfer[t].calls = 3
        /\ xfer[t].ret = xfer[t].args.num
        /\ xfer[t].args.num = 2

C10_Serialized ==
    /\ \A a \in Adapters :
           Cardinality({t \in Threads : InBatch(t) /\ xfer[t].adapter = a}) <= 1
    /\ \A t \in Threads : InBatch(t) => bus_lock[xfer[t].adapter] = t

\* one thread is retrying its batch while another waits for the same bus
C10_Witness ==
    \E t, u \in Threads :
        /\ t # u
        /\ xfer[t].pc = "in_xfer"
        /\ xfer[t].calls = 2
        /\ xfer[u].pc = "lock_bus"
        /\ xfer[u].adapter = xfer[t].adapter

\* C11 as stated: while the adapter is marked suspended every call of
\* __i2c_transfer on it returns -ESHUTDOWN and invokes no primitive.
C11_SuspendedShutdown ==
    \A t \in Threads :
        Returned(t) /\ Suspended(xfer[t].adapter) =>
            xfer[t].ret = -ESHUTDOWN /\ xfer[t].calls = 0

\* C11: while the adapter is marked suspended no invocation of a primitive is
\* in progress on it and none begins; a call that reaches the suspend check
\* returns -ESHUTDOWN, a call that fails an earlier check keeps that check's
\* error; an adapter that is not marked suspended never answers -ESHUTDOWN.
C11_SuspendedRejects ==
    \A t \in Threads :
        /\ xfer[t].pc = "in_xfer" => ~Suspended(xfer[t].adapter)
        /\ Returned(t) /\ Suspended(xfer[t].adapter) =>
               /\ xfer[t].calls = 0
               /\ xfer[t].ret = IF ~i2c_adapter.master_xfer THEN -EOPNOTSUPP
                                ELSE IF ~HasBatch(t) THEN -EINVAL
                                ELSE -ESHUTDOWN
        /\ Returned(t) /\ ~Suspended(xfer[t].adapter) => xfer[t].ret # -ESHUTDOWN

\* a transfer was refused while the adapter was suspended (the report bit is
\* set), and after the resume a primitive is running on the same adapter
C11_Witness ==
    \E t \in Threads :
        /\ xfer[t].pc = "in_xfer"
        /\ locked_flags[xfer[t].adapter] = {I2C_ALF_SUSPEND_REPORTED}

(***************************************************************************)
(* Observations on a run of i2c_generic_scl_recovery                       *)
(***************************************************************************)
\* the generic routine was entered by the call in progress
GenericRan == rec.driven # <<>>

\* the loop of the generic routine is over
LoopOver == rec.pc \in {"exit", "return"}

\* rising edges the loop has produced
RisingEdges == (Len(rec.driven) - 1) \div 2

\* C12: when get_scl reads low the recovery stops with -EBUSY and set_scl is
\* not called again, in particular on the first read, when only the initial
\* drive-high has happened; whenever the generic routine returns, the
\* unprepare hook (if any) has been called once and the pins (if under
\* pinctrl) are back in their default state.
C12_StuckAndRestore ==
    /\ rec.stuck_at # 0 =>
           /\ LoopOver
           /\ rec.ret = -EBUSY
           /\ Len(rec.driven) = rec.stuck_at
    /\ rec.scl_reads = 1 /\ rec.stuck_at # 0 => rec.driven = <<1>>
    /\ rec.pc = "return" /\ GenericRan =>
           /\ rec.unprepared = IF bri.unprepare_recovery # "NULL" THEN 1 ELSE 0
           /\ rec.pins = "default"
    /\ rec.pc = "idle" => rec.pins = "default"

\* the clock read low on the first check: -EBUSY, no toggle, the unprepare
\* hook called and the pins switched back
C12_Witness ==
    /\ rec.pc = "return"
    /\ rec.scl_reads = 1
    /\ rec.stuck_at = 1
    /\ rec.ret = -EBUSY
    /\ rec.driven = <<1>>
    /\ bri.pinctrl
    /\ bri.prepare_recovery # "NULL"
    /\ rec.unprepared = 1
    /\ rec.pins = "default"

\* C13: with a bus-free reader, one reading is taken per rising edge, by
\* get_bus_free when the driver supplies it and by get_sda otherwise; while
\* the loop runs no reading has reported the bus free, and once one does the
\* loop is over with no further set_scl and the result is 0.
C13_StopsWhenFree ==
    GenericRan =>
        /\ rec.checks =
              IF bri.get_bus_free = "NULL" /\ bri.get_sda = "NULL" THEN 0
              ELSE RisingEdges
        /\ rec.checks > 0 =>
              rec.reader = IF bri.get_bus_free # "NULL" THEN "get_bus_free"
                           ELSE "get_sda"
        /\ rec.pc = "loop" /\ rec.checks > 0 => rec.reading <= 0
        /\ rec.checks > 0 /\ rec.reading > 0 =>
              /\ LoopOver
              /\ rec.free_at = Len(rec.driven)
              /\ rec.ret = 0

\* the data line, read by get_sda, reported the bus free on the second
\* rising edge and the recovery returned 0
C13_Witness ==
    /\ rec.pc = "return"
    /\ bri.get_bus_free = "NULL"
    /\ rec.reader = "get_sda"
    /\ rec.reading = 1
    /\ rec.driven = <<1, 0, 1, 0, 1>>
    /\ rec.checks = 2
    /\ rec.ret = 0

\* the descriptor has neither a bus-free check nor a data-line reader
NoBusFreeCheck == bri.get_bus_free = "NULL" /\ bri.get_sda = "NULL"

\* the pulse sequence ran to its end: the drive-high and nine clock cycles
FullSequence == Len(rec.driven) = 1 + RECOVERY_CLK_CNT * 2

\* C14: without get_bus_free and get_sda, a generic recovery whose pulse
\* sequence ran to its end returns 0; the only failure it can return is the
\* stuck clock, and -EOPNOTSUPP is never returned by any recovery.
C14_NoCheckIsSuccess ==
    rec.pc = "return" /\ GenericRan =>
        /\ rec.ret # -EOPNOTSUPP
        /\ NoBusFreeCheck /\ FullSequence => rec.ret = 0
        /\ NoBusFreeCheck /\ rec.ret # 0 => rec.ret = -EBUSY /\ rec.stuck_at # 0

\* a descriptor with set_sda only went through all nine cycles and returned 0
C14_Witness ==
    /\ rec.pc = "return"
    /\ NoBusFreeCheck
    /\ bri.set_sda # "NULL"
    /\ FullSequence
    /\ rec.checks = 0
    /\ rec.ret = 0

\* C15: set_scl is called with 1 first and then at most 18 more times, with
\* 0 and 1 in turn, whatever the readers answer; a generic recovery that has
\* entered its loop returns.
C15_AtMostNineCycles ==
    /\ [](/\ Len(rec.driven) <= 1 + 18
          /\ \A j \in 1..Len(rec.driven) : rec.driven[j] = j % 2
          /\ rec.i <= 18)
    /\ (rec.pc = "loop") ~> (rec.pc = "return")

\* the bus never came free: eighteen half-transitions, then -EBUSY
C15_Witness ==
    /\ rec.pc = "return"
    /\ Len(rec.driven) = 19
    /\ rec.checks = 9
    /\ rec.reading = 0
    /\ rec.ret = -EBUSY

\* the descriptor the adapter keeps is usable as it stands
Usable(b) ==
    /\ b.recover_bus # "NULL"
    /\ b.recover_bus = "generic" => b.get_scl # "NULL" /\ b.set_scl # "NULL"
    /\ b.recover_bus = "generic" /\ ~b.scl_gpiod =>
           b.get_sda # "NULL" \/ b.set_sda # "NULL"

\* C16: after registration the adapter has either no descriptor or a usable
\* one: a recover_bus method, and for the generic method get_scl and set_scl,
\* and without GPIO lines also get_sda or set_sda; with no descriptor
\* i2c_recover_bus returns -EBUSY; no routine is entered through a missing
\* method or line accessor.
C16_IncompleteRejected ==
    /\ registered.state = "registered" /\ ~bri.null => Usable(bri)
    /\ registered.state = "registered" /\ registered.init_recovery = -EINVAL => bri.null
    /\ rec.pc = "return" /\ bri.null => rec.ret = -EBUSY /\ ~GenericRan
    /\ rec.pc # "oops"
    /\ GenericRan => bri.get_scl # "NULL" /\ bri.set_scl # "NULL"

\* registration cleared the descriptor and i2c_recover_bus answered -EBUSY
C16_Witness ==
    /\ registered.state = "registered"
    /\ registered.init_recovery = -EINVAL
    /\ bri.null
    /\ rec.pc = "return"
    /\ rec.ret = -EBUSY

(***************************************************************************)
(* Observations on a detection pass and on the removal calls               *)
(***************************************************************************)
\* a pass of i2c_detect for <<det.adapter, det.driver>> is running or has
\* just returned
InPass == det.driver # "none"

\* the pass has returned to i2c_do_add_adapter
PassOver == InPass /\ det.pc = "walk"

\* the registered clients on adapter a that driver d detected
DetectedOn(a, d) == {c \in Live : c.adapter = a /\ origin[c] = d}

\* the driver may scan the adapter at all
MayScan(drv, class) ==
    drv.detect /\ ~drv.address_list.null /\ BitAnd(class, drv.class) # 0

\* candidate r was strictly valid, not busy, answered the probe, and the
\* callback succeeded and set a type name
Qualifies(r) == r.valid /\ ~r.busy /\ r.answer /\ r.cbret = 0 /\ r.named

\* the pass does nothing when the driver may not scan the adapter
NothingUnlessMayScan ==
    InPass /\ ~MayScan(i2c_driver[det.driver], i2c_adapter_idr[det.adapter])
        => /\ det.log = <<>>
           /\ ~det.ran
           /\ DetectedOn(det.adapter, det.driver) = {}

C19_DetectedTornDown ==
    /\ \A c \in Live :
           origin[c] \in Drivers => c \in Range(i2c_driver[origin[c]].clients)
    /\ call.op = "del_driver" => \A c \in Live : origin[c] # call.target
    /\ call.op = "del_adapter"
           => \A d \in Drivers : \A c \in Range(i2c_driver[d].clients) :
                  c.adapter # call.target

\* a driver that had detected a client was deleted
C19_Witness ==
    /\ call.op = "del_driver"
    /\ \E x \in call.removed : x.by = call.target

(***************************************************************************)
(* C20: delete_device removes at most one client, and only one that        *)
(* new_device made on the same adapter and whose flag-encoded address is   *)
(* the number written; when a client made by detection or by a driver has  *)
(* that address, it returns -ENOENT and the client stays registered; when  *)
(* a client made by new_device on the adapter has it, that client is gone. *)
(***************************************************************************)
C20_DeleteOnlySysfs ==
    call.op = "delete_device" =>
        LET there == {c \in Live : /\ c.adapter = call.target
                                   /\ EncodedAddr[c.addr, c.flags] = call.addr}
        IN /\ Cardinality(call.removed) <= 1
           /\ \A x \in call.removed :
                  /\ x.by = "sysfs"
                  /\ x.c.adapter = call.target
                  /\ EncodedAddr[x.c.addr, x.c.flags] = call.addr
                  /\ x.c \notin Live
           /\ call.res = count <=> call.removed # {}
           /\ call.res # count => call.res \in {-ENOENT, -EINVAL}
           /\ call.res # -EINVAL
                  => /\ \A c \in there : origin[c] # "sysfs"
                     /\ there # {} => call.res = -ENOENT

\* the address of a detected client was written to delete_device: not found,
\* and the client is still there
C20_Witness ==
    /\ call.op = "delete_device"
    /\ call.res = -ENOENT
    /\ \E c \in Live : /\ c.adapter = call.target
                       /\ EncodedAddr[c.addr, c.flags] = call.addr
                       /\ origin[c] \in Drivers

(***************************************************************************)
(* Address validity                                                        *)
(***************************************************************************)
\* the addresses the claim says are accepted under a flag word
Accepted(addr, flags) ==
    IF flags = I2C_CLIENT_TEN THEN addr <= 1023 ELSE addr >= 1 /\ addr <= 127

\* C25: i2c_check_addr_validity accepts exactly the addresses up to 0x3FF
\* with the ten-bit flag and 0x01..0x7F without it, and answers -EINVAL
\* otherwise; i2c_new_client_device returns -EINVAL for exactly the rejected
\* ones, and then no client of that address exists and no instantiation
\* marker is set.
C25_ValidityExact ==
    /\ (i2c_check_addr_validity(arg.addr, arg.flags) = 0)
           <=> Accepted(arg.addr, arg.flags)
    /\ i2c_check_addr_validity(arg.addr, arg.flags) \in {0, -EINVAL}
    /\ pc[1] = "return" =>
           ((status[1] = -EINVAL) <=> ~Accepted(arg.addr, arg.flags))
    /\ ~Accepted(arg.addr, arg.flags) =>
           /\ \A c \in Live : ~(c.addr = arg.addr /\ c.flags = arg.flags)
           /\ addrs_in_instantiation["root"] = {}
           /\ pc[1] \in {"idle", "return"}

C25_Witness ==
    /\ pc[1] = "return"
    /\ status[1] = -EINVAL
    /\ arg = [addr |-> 1024, flags |-> I2C_CLIENT_TEN]

\* C26: the strict check rejects 0x00..0x07 and everything from 0x78 up and
\* accepts 0x08..0x77; i2c_detect_address and i2c_new_scanned_device hand
\* no other address to the probe and instantiate no client at any other.
C26_NoReservedProbed ==
    /\ (i2c_check_7bit_addr_validity_strict(arg.addr) = 0)
           <=> (arg.addr >= 8 /\ arg.addr <= 119)
    /\ \A k \in 1 .. Len(scanned.probed) :
           scanned.probed[k] >= 8 /\ scanned.probed[k] <= 119
    /\ scanned.addr # -1 => (scanned.addr >= 8 /\ scanned.addr <= 119)
    /\ \A c \in DOMAIN origin : c.addr >= 8 /\ c.addr <= 119

C26_Witness ==
    /\ scanned.by = "i2c_new_scanned_device"
    /\ arg.addr = 120
    /\ scanned.probed = <<81>>
    /\ scanned.addr = 81

(***************************************************************************)
(* Quirk validation and the choice of primitive                            *)
(***************************************************************************)
IsRead(m) == BitAnd(m.flags, I2C_M_RD) # 0

\* the shape and length rules of a combined pair that q declares and msgs breaks
CombViolation(q, msgs) ==
    \/ QuirkFlag(q, I2C_AQ_COMB_WRITE_FIRST) /\ IsRead(msgs[1])
    \/ QuirkFlag(q, I2C_AQ_COMB_READ_SECOND) /\ ~IsRead(msgs[2])
    \/ QuirkFlag(q, I2C_AQ_COMB_SAME_ADDR) /\ msgs[1].addr # msgs[2].addr
    \/ q.max_comb_1st_msg_len # 0 /\ msgs[1].len > q.max_comb_1st_msg_len
    \/ q.max_comb_2nd_msg_len # 0 /\ msgs[2].len > q.max_comb_2nd_msg_len

\* the general rules that q declares and the batch breaks
GeneralViolation(q, msgs, n) ==
    \/ q.max_num_msgs # 0 /\ n > q.max_num_msgs
    \/ \E i \in 1 .. n :
           IF IsRead(msgs[i])
           THEN \/ q.max_read_len # 0 /\ msgs[i].len > q.max_read_len
                \/ QuirkFlag(q, I2C_AQ_NO_ZERO_LEN_READ) /\ msgs[i].len = 0
           ELSE \/ q.max_write_len # 0 /\ msgs[i].len > q.max_write_len
                \/ QuirkFlag(q, I2C_AQ_NO_ZERO_LEN_WRITE) /\ msgs[i].len = 0

\* q without its general per-direction length caps
WithoutCaps(q) == [q EXCEPT !.max_read_len = 0, !.max_write_len = 0]

\* the call got as far as the quirk check of an adapter that declares quirks
QuirksChecked(t) ==
    /\ Returned(t)
    /\ i2c_adapter.master_xfer
    /\ HasBatch(t)
    /\ xfer[t].ret # -ESHUTDOWN
    /\ i2c_adapter.quirks # "NULL"

Rejected(t) == xfer[t].ret = -EOPNOTSUPP /\ xfer[t].calls = 0

\* C27: with combined mode declared and two messages, a batch that breaks a
\* declared write-first, read-second or same-address rule or a non-zero
\* first/second length cap is rejected, and the general per-direction caps
\* play no part in the verdict; in every other case a batch that exceeds
\* the maximum message count or a non-zero cap of its direction, or has a
\* zero-length message where prohibited, is rejected, and without combined
\* mode nothing else is.
C27_QuirkValidation ==
    \A t \in Threads :
        QuirksChecked(t) =>
            LET q == QuirkTable[i2c_adapter.quirks]
                msgs == xfer[t].args.msgs
                n == xfer[t].args.num
            IN IF QuirkFlag(q, I2C_AQ_COMB) /\ n = 2
               THEN /\ CombViolation(q, msgs) => Rejected(t)
                    /\ Rejected(t) <=> i2c_check_for_quirks(WithoutCaps(q), msgs, n) # 0
               ELSE /\ GeneralViolation(q, msgs, n) => Rejected(t)
                    /\ ~QuirkFlag(q, I2C_AQ_COMB) =>
                           (Rejected(t) => GeneralViolation(q, msgs, n))

\* a write then a read of two bytes each went through although the general
\* caps of the adapter are one byte
C27_Witness ==
    \E t \in Threads :
        /\ QuirksChecked(t)
        /\ i2c_adapter.quirks = "comb_caps"
        /\ xfer[t].args.msgs = WriteThenRead
        /\ ~Rejected(t)
        /\ xfer[t].calls = 1

\* C28: every attempt of a batch calls master_xfer_atomic if and only if
\* the caller is in atomic context and the adapter has one; every other
\* attempt calls master_xfer.
C28_AtomicDispatch ==
    \A t \in Threads :
        xfer[t].calls >= 1 =>
            /\ xfer[t].prim.fn = "master_xfer_atomic"
                   <=> (in_atomic /\ i2c_adapter.master_xfer_atomic)
            /\ xfer[t].prim.fn = "master_xfer"
                   <=> ~(in_atomic /\ i2c_adapter.master_xfer_atomic)

\* a second attempt in atomic context on an adapter without an atomic
\* primitive went to master_xfer
C28_Witness ==
    \E t \in Threads :
        /\ xfer[t].pc = "in_xfer"
        /\ xfer[t].calls = 2
        /\ in_atomic
        /\ ~i2c_adapter.master_xfer_atomic
        /\ xfer[t].prim.fn = "master_xfer"

(***************************************************************************)
(* The bus numbers                                                         *)
(***************************************************************************)
\* the number of adapter x does not lead to x: it was removed, never
\* handed out, or belongs to another adapter by now
NotHeld(x) == adaps[x].nr \notin DOMAIN idr \/ idr[adaps[x].nr] # x

\* C21: i2c_del_adapter on an adapter whose number is no longer, or never
\* was, or is by now another adapter's, changes nothing: not the numbers,
\* not any adapter, not any client.
C21_SecondDeleteNoOp ==
    [][\A x \in AdapObjs :
           (nrcall'.op = "i2c_del_adapter" /\ nrcall'.adap = x /\ NotHeld(x)) =>
               /\ idr' = idr
               /\ adaps' = adaps
               /\ clients' = clients
               /\ __i2c_first_dynamic_bus_num' = __i2c_first_dynamic_bus_num]_vars

\* an adapter deleted before was deleted again while another adapter, with a
\* client, holds its old number
C21_Witness ==
    \E x \in AdapObjs :
        /\ nrcall.op = "i2c_del_adapter"
        /\ nrcall.adap = x
        /\ ~adaps[x].registered
        /\ adaps[x].nr \in DOMAIN idr
        /\ idr[adaps[x].nr] # x
        /\ adaps[idr[adaps[x].nr]].clients = 1

\* C23: adding an adapter under a number that is in use returns -EBUSY;
\* adding one without a name or without an algo returns an error; a failed
\* addition leaves the number registry as it was, with no number leading to
\* the adapter; no two numbers lead to one adapter.
C23_FailedAddLeavesRegistry ==
    [][nrcall'.op = "add" =>
           LET x == nrcall'.adap
           IN /\ (~nrcall'.dyn /\ adaps'[x].nr \in DOMAIN idr) => nrcall'.ret = -EBUSY
              /\ (~nrcall'.has[1] \/ ~nrcall'.has[2]) => nrcall'.ret < 0
              /\ nrcall'.ret # 0 =>
                     /\ idr' = idr
                     /\ \A n \in DOMAIN idr' : idr'[n] # x
              /\ \A n1, n2 \in DOMAIN idr' : n1 # n2 => idr'[n1] # idr'[n2]]_vars

\* an adapter without an algo was refused while the other adapter stays
\* registered under its number
C23_Witness ==
    \E x \in AdapObjs :
        /\ nrcall.op = "add"
        /\ nrcall.adap = x
        /\ nrcall.has = <<TRUE, FALSE>>
        /\ nrcall.ret = -EINVAL
        /\ ~adaps[x].registered
        /\ adaps[x].nr \notin DOMAIN idr
        /\ \E n \in DOMAIN idr : idr[n] # x

\* the numbers declared so far: by i2c_register_board_info, and by the
\* aliases of the firmware once i2c_init has read them
Reserved ==
    declared.list \cup (IF is_registered THEN declared.aliases ELSE {})

\* C24: a number handed out dynamically is at least
\* __i2c_first_dynamic_bus_num as it stands at that moment, and so above
\* every number declared before; __i2c_first_dynamic_bus_num never
\* decreases.
C24_DynamicAboveStatic ==
    [][/\ __i2c_first_dynamic_bus_num' >= __i2c_first_dynamic_bus_num
       /\ nrcall'.dyn =>
              LET id == adaps'[nrcall'.adap].nr
              IN /\ id >= __i2c_first_dynamic_bus_num
                 /\ \A b \in Reserved : id > b]_vars

\* with the numbers 0 and 1 declared, an adapter got the dynamic number 2
C24_Witness ==
    \E x \in AdapObjs :
        /\ nrcall.op = "add"
        /\ nrcall.adap = x
        /\ nrcall.dyn
        /\ nrcall.ret = 0
        /\ 1 \in Reserved
        /\ adaps[x].nr = 2
        /\ i2c_get_adapter(2) = x

(***************************************************************************)
(* C22: right after i2c_del_adapter(A) of a registered adapter the list of *)
(* clients made through sysfs is empty, no driver's list holds a detected  *)
(* client of A, and no client of A is registered: the clients not named    *)
(* "dummy" went in the walk of __unregister_client, the dummy clients left *)
(* went in the walk of __unregister_dummy; i2c_get_adapter of A's number   *)
(* finds nothing and A can be registered under it again.                   *)
(***************************************************************************)
C22_AdapterTornDown ==
    call.op = "del_adapter" =>
        LET a == call.target
        IN /\ userspace_clients[a] = <<>>
           /\ \A d \in Drivers : \A c \in Range(i2c_driver[d].clients) : c.adapter # a
           /\ \A c \in Live : c.adapter # a
           /\ \A x \in call.removed :
                  /\ x.c.adapter = a
                  /\ x.pass = "__unregister_client" => x.by # "dummy"
                  /\ x.by = "dummy" => x.pass = "__unregister_dummy"
                  /\ x.by = "kernel" => x.pass = "__unregister_client"
           /\ AdapterAt(AdapterNr(a)) = "NULL"
           /\ a \notin DOMAIN i2c_adapter_idr
           /\ det.pc = "idle"
           /\ dev_parent(a) = NoAdapter \/ dev_parent(a) \in DOMAIN i2c_adapter_idr

\* an adapter went away with a client of a driver and a dummy client on it
C22_Witness ==
    /\ call.op = "del_adapter"
    /\ \E x \in call.removed : x.by = "kernel" /\ x.pass = "__unregister_client"
    /\ \E x \in call.removed : x.by = "dummy" /\ x.pass = "__unregister_dummy"

(***************************************************************************)
(* The bus lock                                                            *)
(***************************************************************************)
\* t holds the bus lock of adapter a: by i2c_lock_bus, or inside i2c_transfer
Holds(t, a) ==
    \/ a \in HeldBy(t)
    \/ InBatch(t) /\ xfer[t].adapter = a

\* t has locked adapter a at root scope
HoldsAtRoot(t, a) ==
    \E k \in 1 .. Len(held[t]) :
        held[t][k] = [adapter |-> a, flags |-> I2C_LOCK_ROOT_ADAPTER]

\* the adapters of the tree below and including a
RECURSIVE InTreeOf(_, _)
InTreeOf(d, a) ==
    d = a \/ (dev_parent(d) # NoAdapter /\ InTreeOf(dev_parent(d), a))

LockStep(t) == xfer[t].pc = "lock_bus" /\ xfer'[t].pc # "lock_bus"

\* thread t returns from i2c_transfer in this step
ReturnStep(t) == xfer[t].pc \notin {"idle", "return"} /\ xfer'[t].pc = "return"

\* C31: in atomic context a caller at the bus lock can always step on, and
\* when the lock is taken that step returns -EAGAIN, calls no primitive and
\* leaves the lock to its owner; in normal context the caller can step on
\* exactly when the lock is free, and then owns it; a call owns the lock
\* exactly from the lock to the unlock, and every return of a call that took
\* the lock goes through the one unlock, which frees the lock.
C31_TrylockOrBlock ==
    /\ [](\A t \in Threads :
              /\ xfer[t].pc = "lock_bus" =>
                     IF in_atomic THEN ENABLED __i2c_lock_bus_helper(t)
                     ELSE (ENABLED __i2c_lock_bus_helper(t))
                              <=> bus_lock[xfer[t].adapter] = 0
              /\ \A a \in Adapters :
                     bus_lock[a] = t <=> (InBatch(t) /\ xfer[t].adapter = a))
    /\ [][\A t \in Threads :
              LET a == xfer[t].adapter
              IN /\ LockStep(t) =>
                        IF in_atomic /\ bus_lock[a] # 0
                        THEN /\ xfer'[t] = ReturnFrame(-EAGAIN)
                             /\ xfer'[t].calls = 0
                             /\ bus_lock' = bus_lock
                        ELSE /\ bus_lock[a] = 0
                             /\ bus_lock'[a] = t
                             /\ xfer'[t].pc = "__i2c_transfer"
                 /\ (ReturnStep(t) /\ ~LockStep(t)) =>
                        /\ xfer[t].pc = "unlock_bus"
                        /\ bus_lock[a] = t
                        /\ bus_lock'[a] = 0
                 /\ (InBatch(t) /\ bus_lock'[a] # t) => ReturnStep(t)]_vars

\* in atomic context a caller was turned away with -EAGAIN, before any tick,
\* while the other caller's primitive runs
C31_Witness ==
    \E t, u \in Threads :
        /\ in_atomic
        /\ jiffies = 0
        /\ xfer[t] = ReturnFrame(-EAGAIN)
        /\ xfer[u].pc = "in_xfer"

(***************************************************************************)
(* The report of a transfer on a suspended adapter                         *)
(***************************************************************************)
\* __i2c_transfer of thread t returns in this step, having found its adapter
\* suspended at the suspend check
RejectedStep(t) ==
    /\ xfer[t].pc = "__i2c_transfer"
    /\ xfer'[t].pc # "__i2c_transfer"
    /\ i2c_adapter.master_xfer
    /\ HasBatch(t)
    /\ Suspended(xfer[t].adapter)

\* C32: a transfer refused because its adapter is suspended returns
\* -ESHUTDOWN without calling a primitive; it writes the report when it is
\* the first transfer refused on that adapter and writes nothing when a
\* transfer was refused on that adapter before, whatever suspends and
\* resumes lie between; so an adapter has one report once a transfer was
\* refused on it and none before.
C32_ReportedOnce ==
    /\ [](\A a \in Adapters :
              suspend_log[a].warned = IF suspend_log[a].rejected THEN 1 ELSE 0)
    /\ [][\A t \in Threads :
              RejectedStep(t) =>
                  LET a == xfer[t].adapter
                  IN /\ xfer'[t].pc = "unlock_bus"
                     /\ xfer'[t].ret = -ESHUTDOWN
                     /\ xfer'[t].calls = 0
                     /\ suspend_log'[a].rejected
                     /\ suspend_log'[a].warned =
                            IF suspend_log[a].rejected
                            THEN suspend_log[a].warned
                            ELSE suspend_log[a].warned + 1]_vars

\* one caller was refused on the root adapter and has returned, and a second
\* caller is refused on it now: two refusals, the one report of the first
C32_Witness ==
    \E t, u \in Threads :
        /\ t # u
        /\ xfer[u] = ReturnFrame(-ESHUTDOWN)
        /\ xfer[t].pc = "unlock_bus"
        /\ xfer[t].adapter = "root"
        /\ xfer[t].ret = -ESHUTDOWN
        /\ ~suspend_log["muxA"].rejected
        /\ suspend_log["root"] = [rejected |-> TRUE, warned |-> 1]

(***************************************************************************)
(* The order of the line operations in the pulse loop                      *)
(***************************************************************************)
\* the pass taken in this step drives the clock to level
EdgeStep(level) == rec.pc = "loop" /\ rec'.driven = Append(rec.driven, level)

\* the pass taken in this step read the clock low and left the loop
StuckStep == rec.pc = "loop" /\ rec.stuck_at = 0 /\ rec'.stuck_at # 0

\* the data line was driven after every write of the clock, to the level of
\* that write, when there is a setter, and never when there is none
DataFollowsClock ==
    rec.pc \in {"loop", "exit"} =>
        rec.sda = IF bri.set_sda # "NULL" THEN rec.driven ELSE <<>>

\* C33 as stated: the pass that raises the clock reads the clock first.
C33_ReadBeforeRise ==
    /\ []DataFollowsClock
    /\ [][EdgeStep(1) => rec'.scl_reads = rec.scl_reads + 1]_vars

\* C33: the clock line is read in the passes that find the clock driven
\* high, which are the passes that go on to pull it low: each falling edge
\* comes right after a read that found the clock high, a read that finds it
\* low ends the loop with -EBUSY before any further edge, and the pass that
\* raises the clock reads nothing; after every write of the clock, the first
\* included, the data line is driven to the level written, when there is a
\* setter, before the next write of the clock.
C33_ReadBeforeFall ==
    /\ []DataFollowsClock
    /\ [][/\ EdgeStep(0) =>
                 /\ rec.driven[Len(rec.driven)] = 1
                 /\ rec'.scl_reads = rec.scl_reads + 1
                 /\ rec'.stuck_at = 0
          /\ EdgeStep(1) =>
                 /\ rec.driven[Len(rec.driven)] = 0
                 /\ rec'.scl_reads = rec.scl_reads
          /\ StuckStep =>
                 /\ rec.driven[Len(rec.driven)] = 1
                 /\ rec'.scl_reads = rec.scl_reads + 1
                 /\ rec'.driven = rec.driven
                 /\ rec'.ret = -EBUSY
                 /\ rec'.pc = "exit"]_vars

\* with a data setter, the loop has pulled the clock low and raised it
\* again after one read of the clock
C33_Witness ==
    /\ rec.pc = "loop"
    /\ bri.set_sda # "NULL"
    /\ rec.driven = <<1, 0, 1>>
    /\ rec.sda = <<1, 0, 1>>
    /\ rec.scl_reads = 1

(***************************************************************************)
(* The transaction of the default probe                                    *)
(***************************************************************************)
\* the addresses a quick write must not reach: 0x30-0x37 and 0x50-0x5F
EepromRange == (48 .. 55) \cup (80 .. 95)

\* C34: the default probe hands no quick write to an address in 0x30-0x37
\* or 0x50-0x5F; for those addresses, and on an adapter without the quick
\* command, it does a byte read when the adapter can, and else calls no
\* transaction and answers 0, not present.
C34_NoQuickOnEeproms ==
    scanned.by = "i2c_default_probe" =>
        LET a == arg.addr
            x == scanned.xfer
            f == scanned.func
        IN /\ a \in EepromRange => x.size # "I2C_SMBUS_QUICK"
           /\ (a \in EepromRange \/ "I2C_FUNC_SMBUS_QUICK" \notin f) =>
                  IF "I2C_FUNC_SMBUS_READ_BYTE" \in f
                  THEN x = [read_write |-> "I2C_SMBUS_READ", size |-> "I2C_SMBUS_BYTE"]
                  ELSE x = NoSmbusXfer /\ scanned.status = 0

\* 0x5F was probed on an adapter that has the quick command and the byte
\* read: a byte read, and the device answered
C34_Witness ==
    /\ scanned.by = "i2c_default_probe"
    /\ arg.addr = 95
    /\ {"I2C_FUNC_SMBUS_QUICK", "I2C_FUNC_SMBUS_READ_BYTE"} \subseteq scanned.func
    /\ scanned.xfer.size = "I2C_SMBUS_BYTE"
    /\ scanned.status = 1

(***************************************************************************)
(* The populated flag of the device tree nodes                             *)
(***************************************************************************)
\* the notifier returns in this step with the result res for node n
NotifyReturns(res, n) ==
    /\ of_call["notify"].pc = "idle"
    /\ of_call'["notify"].pc = "idle"
    /\ of_call'["notify"] # of_call["notify"]
    /\ of_call'["notify"].last = res
    /\ of_call'["notify"].node = n

GetReturns(x) ==
    /\ nrcall' # nrcall
    /\ nrcall'.op = "i2c_get_adapter"
    /\ nrcall'.adap = x

\* C36: i2c_get_adapter returns an adapter only when the registration of
\* that adapter has returned 0 and its deletion has not begun to detach
\* clients: never one whose number is reserved and whose registration is
\* still to run or has failed, never one past the first step of
\* i2c_del_adapter.
C36_GetOnlyRegistered ==
    [][\A x \in AdapObjs :
           GetReturns(x) => adaps[x].registered /\ adaps[x].pc = "idle"]_vars

(***************************************************************************)
(* The key of the instantiation marker                                     *)
(***************************************************************************)
\* thread t is between i2c_lock_addr and i2c_unlock_addr
PastLockAddr(t) == pc[t] \in {"check_busy", "register", "out_err", "unlock_addr"}

\* thread u is past i2c_lock_addr on the adapter and the 7-bit number that
\* thread t is about to lock, whatever the slave flags of the two
HoldsNumberOf(u, t) ==
    /\ u # t
    /\ PastLockAddr(u)
    /\ info[u].adapter = info[t].adapter
    /\ info[u].addr = info[t].addr
    /\ BitAnd(info[u].flags, I2C_CLIENT_TEN) = 0

\* thread t leaves i2c_lock_addr in this step
LockAddrStep(t) == pc[t] = "lock_addr" /\ pc'[t] # "lock_addr"

\* C37: a call with a 7-bit address that comes to i2c_lock_addr while another
\* call is between lock and unlock on the same adapter and the same number
\* returns -EBUSY, also when one has I2C_CLIENT_SLAVE and the other has not,
\* although their encoded addresses differ and no client is registered; so
\* no two such calls are past the lock together; a call with a 10-bit address
\* always passes i2c_lock_addr and leaves the marker as it is.
C37_MarkerKeyedByNumber ==
    /\ [](/\ EncodedAddr[80, 0] # EncodedAddr[80, I2C_CLIENT_SLAVE]
          /\ \A t, u \in Threads :
                 (PastLockAddr(t) /\ BitAnd(info[t].flags, I2C_CLIENT_TEN) = 0)
                     => ~HoldsNumberOf(u, t))
    /\ [][\A t \in Threads :
              LockAddrStep(t) =>
                  IF BitAnd(info[t].flags, I2C_CLIENT_TEN) # 0
                  THEN /\ pc'[t] = "check_busy"
                       /\ addrs_in_instantiation' = addrs_in_instantiation
                  ELSE IF \E u \in Threads : HoldsNumberOf(u, t)
                  THEN pc'[t] = "return" /\ status'[t] = -EBUSY
                  ELSE pc'[t] = "check_busy"
                       /\ info[t].addr \in addrs_in_instantiation'[info[t].adapter]]_vars

\* no client is registered; one call is past the lock at 0x50 without the
\* slave flag, the other has come to i2c_lock_addr at 0x50 with it
C37_Witness ==
    \E t, u \in Threads :
        /\ clients = EmptyBag
        /\ pc[t] = "check_busy"
        /\ info[t] = [adapter |-> "root", addr |-> 80, flags |-> 0]
        /\ pc[u] = "lock_addr"
        /\ info[u] = [adapter |-> "root", addr |-> 80, flags |-> I2C_CLIENT_SLAVE]

(***************************************************************************)
(* Registration and the result of the recovery setup                       *)
(***************************************************************************)
\* i2c_register_adapter of a1 has returned
RegistrationOver == registered.state \in {"registered", "deferred"}

\* C38: when i2c_init_recovery turns the descriptor down with -EINVAL,
\* i2c_register_adapter returns 0, the adapter is registered under its
\* number and has no descriptor; the registration is given up for the
\* recovery setup exactly when that returns -EPROBE_DEFER, and then
\* i2c_register_adapter returns -EPROBE_DEFER, the adapter device is not
\* registered and the number leads to no adapter.
C38_BadDescriptorStillRegisters ==
    RegistrationOver =>
        /\ nrcall.op = "add" /\ nrcall.adap = "a1"
        /\ registered.init_recovery = -EINVAL =>
               /\ nrcall.ret = 0
               /\ bri.null
        /\ registered.init_recovery # -EPROBE_DEFER =>
               /\ nrcall.ret = 0
               /\ adaps["a1"].registered
               /\ idr_find(idr, adaps["a1"].nr) = "a1"
        /\ registered.init_recovery = -EPROBE_DEFER =>
               /\ nrcall.ret = -EPROBE_DEFER
               /\ ~adaps["a1"].registered
               /\ idr_find(idr, adaps["a1"].nr) = "NULL"

\* a descriptor naming the generic routine without set_scl was turned down,
\* and the adapter is registered under number 0 without a descriptor
C38_Witness ==
    /\ registered.state = "registered"
    /\ registered.init_recovery = -EINVAL
    /\ bri.null
    /\ nrcall.ret = 0
    /\ adaps["a1"].registered
    /\ 0 \in DOMAIN idr

(***************************************************************************)
(* An invalid address in a detection pass and in i2c_new_scanned_device    *)
(***************************************************************************)
\* the lists handed to i2c_new_scanned_device; 120 (0x78) is reserved
ScanLists == {<<120, 81>>, <<80, 81>>}

\* a kernel caller scans list on adapter a with i2c_new_scanned_device
ScanOnAdapter(a, list, answers, fault) ==
    /\ det.pc = "idle"
    /\ a \in DOMAIN i2c_adapter_idr
    /\ LET r == i2c_new_scanned_device(a, list, answers, fault)
       IN /\ scanned' = r @@ [adap |-> a, list |-> list]
          /\ IF r.addr # -1
             THEN Registers([adapter |-> a, addr |-> r.addr, flags |-> 0], "kernel")
             ELSE UNCHANGED <<clients, origin>>
    /\ call' = NoCall
    /\ UNCHANGED <<i2c_adapter_idr, i2c_driver, userspace_clients, det, arg>>

\* what the registrations and the kernel's own clients leave alone
pvars == <<addrs_in_instantiation, pc, info, status, xvars, rvars, lvars, nvars, fvars>>

\* drivers and adapters get registered, with the detection passes that
\* brings, while kernel callers instantiate and scan
NextPass ==
    \/ (\E d \in Drivers : \E cfg \in DriverConfigs[d] : i2c_register_driver(d, cfg))
           /\ UNCHANGED <<pvars, vvars>>
    \/ (\E a \in Range(DetectAdapters) : \E class \in AdapterClasses[a] :
           i2c_register_adapter(a, class)) /\ UNCHANGED <<pvars, vvars>>
    \/ (\E alloc \in BOOLEAN : i2c_do_add_adapter(alloc)) /\ UNCHANGED <<pvars, vvars>>
    \/ (\E probe_err \in {0, -ENXIO}, cb \in Callbacks, fault \in NewClientFaults :
           DetectAddress(probe_err, cb, fault)) /\ UNCHANGED <<pvars, vvars>>
    \/ RegistrationReturn /\ UNCHANGED <<pvars, vvars>>
    \/ (\E addr \in {80, 81}, fault \in NewClientFaults :
           KernelNewDevice("root", addr, fault)) /\ UNCHANGED <<pvars, vvars>>
    \/ (\E list \in ScanLists, answers \in SUBSET {80, 81}, fault \in NewClientFaults :
           ScanOnAdapter("root", list, answers, fault)) /\ UNCHANGED pvars

SpecPass == InitDetect /\ [][NextPass]_vars

\* a call of i2c_new_scanned_device returns in this step
ScanReturns == scanned' # scanned /\ scanned'.by = "i2c_new_scanned_device"

\* the candidate was passed over: valid, and busy or silent to the probe
PassedOver(r) == r.valid /\ (r.busy \/ (r.probed /\ ~r.answer))

(***************************************************************************)
(* C39: in a pass of i2c_detect a candidate that is not strictly valid     *)
(* ends the pass with -EINVAL, it is neither probed nor instantiated and   *)
(* no later candidate of the list is looked at; a candidate that is busy   *)
(* or does not answer the probe gives no error and the next candidate of   *)
(* the list is looked at.  i2c_new_scanned_device does not stop at an      *)
(* invalid address: when the addresses up to one are all invalid and the   *)
(* next is valid and free, that next one is probed, and the call does not  *)
(* return -EINVAL.                                                         *)
(***************************************************************************)
C39_InvalidEndsPassNotScan ==
    /\ [](InPass =>
            \A k \in DOMAIN det.log :
                LET r == det.log[k]
                    list == i2c_driver[det.driver].address_list.at
                IN /\ ~r.valid
                       => /\ k = Len(det.log)
                          /\ PassOver
                          /\ det.err = -EINVAL
                          /\ ~r.probed /\ ~r.created
                   /\ PassedOver(r)
                       => /\ r.err = 0
                          /\ ~r.created
                          /\ k < Len(list)
                                 => \/ k < Len(det.log)
                                    \/ det.pc = "scan" /\ det.i = k + 1)
    /\ [][ScanReturns =>
            LET L == scanned'.list
            IN /\ scanned'.status # -EINVAL
               /\ \A k \in 1..(Len(L) - 1) :
                      /\ \A j \in 1..k : i2c_check_7bit_addr_validity_strict(L[j]) # 0
                      /\ i2c_check_7bit_addr_validity_strict(L[k + 1]) = 0
                      /\ i2c_check_addr_busy(scanned'.adap, L[k + 1]) = 0
                      => scanned'.probed # <<>> /\ Head(scanned'.probed) = L[k + 1]]_vars

\* a pass over <<120, 81>> ended at 120 with -EINVAL, 81 not looked at,
\* after a scan of the same list that went past 120 and probed 81
C39_Witness ==
    /\ PassOver
    /\ i2c_driver[det.driver].address_list.at = <<120, 81>>
    /\ Len(det.log) = 1
    /\ ~det.log[1].valid
    /\ det.err = -EINVAL
    /\ scanned.by = "i2c_new_scanned_device"
    /\ scanned.list = <<120, 81>>
    /\ scanned.probed = <<81>>

(***************************************************************************)
(* A recovery whose bus-free check never reports free                      *)
(***************************************************************************)
\* the generic routine has returned; it had a bus-free check, which never
\* reported free, and get_scl never read low
ExhaustedRecovery ==
    /\ rec.pc = "return"
    /\ GenericRan
    /\ BusFreeReader(bri) # "none"
    /\ rec.free_at = 0
    /\ rec.stuck_at = 0

\* the generic routine returned after at least one bus-free check, the last
\* of which did not report free
LastCheckNotFree == rec.pc = "return" /\ GenericRan /\ rec.checks > 0 /\ rec.reading <= 0

\* the pulse loop is entered from i2c_recover_bus only
NoRetry == rec'.pc = "loop" => rec.pc \in {"idle", "loop"}

====
